---- MODULE Spec2Model ----
(***************************************************************************)
(* Model of the AIC-based Mapper scoring notebook (src/unnamed/part_000):  *)
(*   compute_aic  - hard clustering by nearest centroid and its AIC score, *)
(*   AIC_score    - one grid point: fit a clone, extract, call compute_aic,*)
(*   the sweep    - Parallel(...)(delayed(AIC_score)...) and np.argmax.    *)
(*                                                                         *)
(* Point indices and cell identifiers are 0-based as in the Python code;   *)
(* TLA+ sequences are 1-based, so X[i + 1] is the row of point i.          *)
(* The centroids, the squared distances and sigma_sq are kept as exact     *)
(* rationals, records [kind, num, den] with kind in {"fin", "nan", "pinf", *)
(* "ninf"}, so the IEEE special values numpy produces (0/0, x/0, log 0)    *)
(* are kept.  The norms that np.argmin compares are float64 values: where  *)
(* two of them stand for the same real number they are evaluated with IEEE *)
(* rounding.  The score of lines 96-101 is the float64 number the code     *)
(* computes, a record [kind |-> "fin", f64 |-> [neg, m, e]] standing for   *)
(* (-1)^neg * m * 2^e with a 53-bit significand m: every operation is      *)
(* rounded as IEEE 754 rounds it, in the order the code performs it.       *)
(* np.log is the library's: for an argument whose logarithm is no float64  *)
(* number a build returns one of the two float64 numbers that enclose it,  *)
(* and the same one each time it is asked (variable np_log).               *)
(***************************************************************************)
EXTENDS Integers, Sequences, FiniteSets, TLC

(* ---------------- bounds of the enumerated inputs ---------------- *)
MaxN == 3
MaxCoord == 1
MaxConfigs == 3

\* Cell identifiers and dimensions used by the enumerated inputs; the
\* hand-written scenarios below add larger coordinates, N = 4, N = 11 and
\* d = 2.
NodeIds == {0, 1}
Dims == {0, 1}

(* ---------------- arithmetic helpers ---------------- *)
RECURSIVE Gcd(_, _)
Gcd(a, b) == IF b = 0 THEN a ELSE Gcd(b, a % b)

Abs(a) == IF a < 0 THEN -a ELSE a

NaN == [kind |-> "nan", num |-> 0, den |-> 1]
PInf == [kind |-> "pinf", num |-> 0, den |-> 1]
NInf == [kind |-> "ninf", num |-> 0, den |-> 1]

Fin(n, m) ==
    LET g == Gcd(Abs(n), m)
    IN [kind |-> "fin", num |-> n \div g, den |-> m \div g]

\* a + b on floats that are finite or NaN
FAdd(a, b) ==
    IF a.kind = "nan" \/ b.kind = "nan" THEN NaN
    ELSE Fin(a.num * b.den + b.num * a.den, a.den * b.den)

\* a < b on finite floats
FLess(a, b) ==
    IF a.den = b.den THEN a.num < b.num ELSE a.num * b.den < b.num * a.den

RECURSIVE FSum(_)
FSum(s) == IF s = <<>> THEN Fin(0, 1) ELSE FAdd(s[1], FSum(Tail(s)))

RECURSIVE ISum(_)
ISum(s) == IF s = <<>> THEN 0 ELSE s[1] + ISum(Tail(s))

(* ---------------- compute_aic, step 1: centroids ---------------- *)
\* a variant that takes np.sum in place of np.mean
CentroidSum(Xm, dim, node_elements) ==
    [cnt |-> 1,
     sum |-> [j \in 1..dim |->
                ISum([e \in 1..Len(node_elements) |-> Xm[node_elements[e] + 1][j]])]]

\* np.mean(X[node_elements], axis=0): per-feature sum and count; the mean of
\* no rows is NaN in every feature.
Centroid(Xm, dim, node_elements) ==
    [cnt |-> Len(node_elements),
     sum |-> [j \in 1..dim |->
                ISum([e \in 1..Len(node_elements) |-> Xm[node_elements[e] + 1][j]])]]

\* X[node_elements] raises IndexError when an index is outside 0..N-1
CentroidsRaise(n, nodes) ==
    \E a \in 1..Len(nodes) : \E e \in 1..Len(nodes[a]) : nodes[a][e] >= n

Centroids(Xm, dim, nodes) ==
    [a \in 1..Len(nodes) |-> Centroid(Xm, dim, nodes[a])]

(* ---------------- float64 arithmetic ---------------- *)
\* numpy computes the centroids and the norms in float64.  A natural number is
\* a sequence of limbs (digits in base Limb), least significant first and
\* without leading zero limbs; a float64 is a record [neg, m, e] of value
\* (-1)^neg * m * 2^e with m of at most Mant bits (zero is m = <<>>).  Every
\* operation is the exact result rounded to nearest, ties to even, as
\* IEEE 754 prescribes; the exponents of the values met here stay far from
\* the overflow and underflow ranges.
Mant == 53

LimbBits == 2 * 6

Limb == 2^LimbBits

RECURSIVE LTrim(_)
LTrim(a) ==
    IF a = <<>> THEN <<>>
    ELSE IF a[Len(a)] # 0 THEN a
    ELSE LTrim(SubSeq(a, 1, Len(a) - 1))

RECURSIVE LFromNat(_)
LFromNat(n) == IF n = 0 THEN <<>> ELSE <<n % Limb>> \o LFromNat(n \div Limb)

LBitLen(a) ==
    IF a = <<>> THEN 0
    ELSE LimbBits * (Len(a) - 1)
         + (CHOOSE b \in 1..LimbBits : 2^(b - 1) <= a[Len(a)] /\ a[Len(a)] < 2^b)

LLess(a, b) ==
    IF Len(a) # Len(b) THEN Len(a) < Len(b)
    ELSE \E j \in 1..Len(a) :
            /\ a[j] < b[j]
            /\ \A h \in (j + 1)..Len(a) : a[h] = b[h]

\* a + b + c for a carry c
RECURSIVE LAddC(_, _, _)
LAddC(a, b, c) ==
    IF a = <<>> /\ b = <<>> THEN (IF c = 0 THEN <<>> ELSE <<c>>)
    ELSE IF a = <<>> THEN LAddC(b, a, c)
    ELSE IF b = <<>> THEN <<(a[1] + c) % Limb>> \o LAddC(Tail(a), b, (a[1] + c) \div Limb)
    ELSE <<(a[1] + b[1] + c) % Limb>>
         \o LAddC(Tail(a), Tail(b), (a[1] + b[1] + c) \div Limb)

\* a - b - c for a >= b + c and a borrow c, not trimmed
RECURSIVE LSubC(_, _, _)
LSubC(a, b, c) ==
    IF a = <<>> THEN <<>>
    ELSE IF b = <<>>
         THEN <<(a[1] - c) % Limb>> \o LSubC(Tail(a), b, IF a[1] - c < 0 THEN 1 ELSE 0)
    ELSE <<(a[1] - b[1] - c) % Limb>>
         \o LSubC(Tail(a), Tail(b), IF a[1] - b[1] - c < 0 THEN 1 ELSE 0)

\* |a - b|
LDiff(a, b) == LTrim(IF LLess(a, b) THEN LSubC(b, a, 0) ELSE LSubC(a, b, 0))

\* a * f + c for 0 <= c < f <= Limb
RECURSIVE LMulSmall(_, _, _)
LMulSmall(a, f, c) ==
    IF a = <<>> THEN (IF c = 0 THEN <<>> ELSE <<c>>)
    ELSE <<(a[1] * f + c) % Limb>> \o LMulSmall(Tail(a), f, (a[1] * f + c) \div Limb)

\* the sum of the products a[h] * b[col + 1 - h] for h >= j: the column col
\* of the product, which stays below 2^31 for numbers of fewer than 2^7 limbs
RECURSIVE LMulCol(_, _, _, _)
LMulCol(a, b, col, j) ==
    IF j > Len(a) \/ j > col THEN 0
    ELSE a[j] * b[col + 1 - j] + LMulCol(a, b, col, j + 1)

\* the column col of a * b plus the carry c
LMulAt(a, b, col, c) == LMulCol(a, b, col, IF col > Len(b) THEN col + 1 - Len(b) ELSE 1) + c

\* the limbs of a * b from the column col on, c carried into it
RECURSIVE LMulFrom(_, _, _, _)
LMulFrom(a, b, col, c) ==
    IF col >= Len(a) + Len(b) THEN (IF c = 0 THEN <<>> ELSE <<c>>)
    ELSE <<LMulAt(a, b, col, c) % Limb>>
         \o LMulFrom(a, b, col + 1, LMulAt(a, b, col, c) \div Limb)

LMul(a, b) == IF b = <<>> \/ a = <<>> THEN <<>> ELSE LTrim(LMulFrom(a, b, 1, 0))

\* one step of the long division by n: the digit and the remainder after the
\* limb x, given those of the higher limbs; hi.j limbs are still to divide
LDivStep(hi, x, n) ==
    [q |-> LTrim(<<(hi.r * Limb + x) \div n>> \o hi.q),
     r |-> (hi.r * Limb + x) % n,
     j |-> hi.j - 1]

RECURSIVE LDivSmallFrom(_, _, _)
LDivSmallFrom(a, n, hi) ==
    IF hi.j = 0 THEN [q |-> hi.q, r |-> hi.r]
    ELSE LDivSmallFrom(a, n, LDivStep(hi, a[hi.j], n))

\* quotient and remainder of a by the integer n, 0 < n <= Limb
LDivSmall(a, n) == LDivSmallFrom(a, n, [q |-> <<>>, r |-> 0, j |-> Len(a)])

LShl(a, s) ==
    IF a = <<>> THEN <<>>
    ELSE [j \in 1..(s \div LimbBits) |-> 0] \o LMulSmall(a, 2^(s % LimbBits), 0)

\* a shifted right by s bits (q, with remainder r of the partial limb), and
\* whether a non-zero bit was shifted out
LShrOut(a, s, qr) ==
    [q |-> qr.q,
     st |-> qr.r # 0 \/ \E j \in 1..(s \div LimbBits) : j <= Len(a) /\ a[j] # 0]

LShr(a, s) ==
    LShrOut(a, s, LDivSmall(SubSeq(a, s \div LimbBits + 1, Len(a)), 2^(s % LimbBits)))

\* (2 * 64 * s + g) * g
LSqrtTerm(s, g) ==
    IF g = 0 THEN <<>> ELSE LMulSmall(LMulSmall(s, 2 * 64, g), g, 0)

LSqrtPut(s, rr, g, j) ==
    [s |-> LMulSmall(s, 64, g), r |-> LDiff(rr, LSqrtTerm(s, g)), j |-> j]

\* the next base-64 digit of the root: the largest digit g + t, 0 <= t < 4 * w,
\* with (2 * 64 * s + g + t) * (g + t) <= rr, for g a multiple of 4 * w and w
\* a power of four or 0
RECURSIVE LSqrtDigit(_, _, _, _)
LSqrtDigit(s, rr, g, w) ==
    IF w = 0 THEN g
    ELSE LSqrtDigit(s, rr,
                    g + w * (CHOOSE t \in 0..3 :
                                /\ t > 0 => ~LLess(rr, LSqrtTerm(s, g + t * w))
                                /\ t < 3 => LLess(rr, LSqrtTerm(s, g + (t + 1) * w))),
                    w \div 4)

\* hi.j limbs are still to bring down
LSqrtStep(hi, x) ==
    LSqrtPut(hi.s, LTrim(<<x>> \o hi.r),
             LSqrtDigit(hi.s, LTrim(<<x>> \o hi.r), 0, 16), hi.j - 1)

RECURSIVE LSqrtFrom(_, _)
LSqrtFrom(a, hi) ==
    IF hi.j = 0 THEN [s |-> hi.s, r |-> hi.r]
    ELSE LSqrtFrom(a, LSqrtStep(hi, a[hi.j]))

\* floor of the square root of a, and the remainder: one base-64 digit of the
\* root for every limb of a
LSqrt(a) == LSqrtFrom(a, [s |-> <<>>, r |-> <<>>, j |-> Len(a)])

F64Zero == [neg |-> FALSE, m |-> <<>>, e |-> 0]

\* r * 2^e for r of at most Mant + 1 bits, the last of them 0 if so
F64Pack(neg, r, e) ==
    IF LBitLen(r) > Mant THEN [neg |-> neg, m |-> LDivSmall(r, 2).q, e |-> e + 1]
    ELSE [neg |-> neg, m |-> r, e |-> e]

\* h.q holds the bits to keep and the bit after them, h.st tells whether
\* anything non-zero lies below: round to nearest, ties to even
F64RoundUp(neg, h, e, sticky) ==
    F64Pack(neg,
            LAddC(LDivSmall(h.q, 2).q, <<>>,
                  IF h.q[1] % 2 = 1 /\ (sticky \/ h.st \/ (h.q[1] \div 2) % 2 = 1)
                  THEN 1 ELSE 0),
            e)

\* t is the number of bits of m beyond Mant
F64RoundAt(neg, m, e, sticky, t) ==
    IF m = <<>> THEN F64Zero
    ELSE IF t <= 0 THEN [neg |-> neg, m |-> m, e |-> e]
    ELSE F64RoundUp(neg, LShr(m, t - 1), e + t, sticky)

\* m * 2^e, plus a non-zero part below the last bit of m when sticky,
\* rounded to Mant bits (a sticky m has more than Mant + 1 bits)
F64Round(neg, m, e, sticky) == F64RoundAt(neg, m, e, sticky, LBitLen(m) - Mant)

F64FromInt(n) == [neg |-> n < 0, m |-> LFromNat(Abs(n)), e |-> 0]

F64DivFOut(neg, qr, e) == F64Round(neg, qr.q, e, qr.r # 0)

\* a / n for a float64 a and an integer n, 0 < n <= Limb
F64DivInt(a, n) == F64DivFOut(a.neg, LDivSmall(LShl(a.m, 2 * Mant), n), a.e - 2 * Mant)

\* s / n for integers s and n, 0 < n <= Limb
F64Div(s, n) == F64DivInt(F64FromInt(s), n)

\* the sum of (-1)^na * ma * 2^e and (-1)^nb * mb * 2^e
F64AddMag(na, ma, nb, mb, e) ==
    IF na = nb THEN F64Round(na, LAddC(ma, mb, 0), e, FALSE)
    ELSE F64Round(IF LLess(ma, mb) THEN nb ELSE na, LDiff(ma, mb), e, FALSE)

F64AddAt(a, b, e) == F64AddMag(a.neg, LShl(a.m, a.e - e), b.neg, LShl(b.m, b.e - e), e)

F64Add(a, b) ==
    IF a.m = <<>> THEN b
    ELSE IF b.m = <<>> THEN a
    ELSE F64AddAt(a, b, IF a.e < b.e THEN a.e ELSE b.e)

F64Sub(a, b) == IF b.m = <<>> THEN a ELSE F64Add(a, [neg |-> ~b.neg, m |-> b.m, e |-> b.e])

F64Mul(a, b) ==
    IF a.m = <<>> \/ b.m = <<>> THEN F64Zero
    ELSE F64Round(a.neg # b.neg, LMul(a.m, b.m), a.e + b.e, FALSE)

F64SqrtOut(sr, e) == F64Round(FALSE, sr.s, e, sr.r # <<>>)

\* a.m is shifted by t bits, t making the exponent even and the root longer
\* than Mant + 1 bits
F64SqrtAt(a, t) == F64SqrtOut(LSqrt(LShl(a.m, t)), (a.e - t) \div 2)

\* np.sqrt of a float64 >= 0
F64Sqrt(a) == F64SqrtAt(a, 2 * Mant + 4 - LBitLen(a.m) + ((a.e - LBitLen(a.m)) % 2))

F64LessAt(a, b, e) == LLess(LShl(a.m, a.e - e), LShl(b.m, b.e - e))

\* a < b for float64 values a >= 0 and b >= 0
F64Less(a, b) ==
    IF b.m = <<>> THEN FALSE
    ELSE IF a.m = <<>> THEN TRUE
    ELSE F64LessAt(a, b, IF a.e < b.e THEN a.e ELSE b.e)

\* the float64 centroid coordinate np.mean(X[node_elements], axis=0)[j]: the
\* exact sum of the column divided by the count, rounded once
F64Mean(c, j) == F64Div(c.sum[j], c.cnt)

F64Square(a) == F64Mul(a, a)

\* x.dot(x) for x = X[i] - centroids[node_id]: the differences are rounded,
\* then the rounded products are added up in index order
RECURSIVE F64Dot(_, _, _)
F64Dot(x, c, j) ==
    IF j = 0 THEN F64Zero
    ELSE F64Add(F64Dot(x, c, j - 1),
                F64Square(F64Sub(F64FromInt(x[j]), F64Mean(c, j))))

\* np.linalg.norm(X[i] - centroids[node_id]) = sqrt(x.dot(x))
F64Norm(x, c, dim) == F64Sqrt(F64Dot(x, c, dim))

\* the largest digit g + t, 0 <= t < 4 * w, with (g + t) * b <= rr, for g a
\* multiple of 4 * w and w a power of four or 0
RECURSIVE LDivDigit(_, _, _, _)
LDivDigit(rr, b, g, w) ==
    IF w = 0 THEN g
    ELSE LDivDigit(rr, b,
                   g + w * (CHOOSE t \in 0..3 :
                               /\ t > 0 => ~LLess(rr, LMulSmall(b, g + t * w, 0))
                               /\ t < 3 => LLess(rr, LMulSmall(b, g + (t + 1) * w, 0))),
                   w \div 4)

LDivPut(q, rr, b, g, j) ==
    [q |-> LTrim(<<g>> \o q),
     r |-> IF g = 0 THEN rr ELSE LDiff(rr, LMulSmall(b, g, 0)),
     j |-> j]

\* the long division of a by b, st.j limbs of a still to bring down: st.q is
\* the quotient and st.r the remainder of the limbs above them
RECURSIVE LDivBigFrom(_, _, _)
LDivBigFrom(a, b, st) ==
    IF st.j = 0 THEN st
    ELSE LDivBigFrom(a, b, LDivPut(st.q, LTrim(<<a[st.j]>> \o st.r), b,
                                   LDivDigit(LTrim(<<a[st.j]>> \o st.r), b, 0, Limb \div 4),
                                   st.j - 1))

\* quotient and remainder of a by b # 0, both sequences of limbs: the top
\* limbs of a, one fewer than b has, are below b and give no digit
LDivBig(a, b) ==
    IF Len(a) < Len(b) THEN [q |-> <<>>, r |-> a, j |-> 0]
    ELSE LDivBigFrom(a, b, [q |-> <<>>,
                            r |-> SubSeq(a, Len(a) - Len(b) + 2, Len(a)),
                            j |-> Len(a) - Len(b) + 1])

\* the float64 a with its significand at full width, so that equal numbers
\* are equal records
F64Canon(a) ==
    IF a.m = <<>> THEN F64Zero
    ELSE [neg |-> a.neg,
          m |-> LShl(a.m, Mant - LBitLen(a.m)),
          e |-> a.e - (Mant - LBitLen(a.m))]

\* IEEE 754 does not say how np.log rounds: the float64 it returns is one of
\* the two that enclose the logarithm, and which of the two depends on the
\* libm and on the SIMD kernel numpy was built with.  The logarithm is
\* computed in fixed point with LogLimbs limbs below the point, a natural
\* number u standing for u / Limb^LogLimbs, together with a bound on its
\* error, and every float64 that can enclose it is kept.
LogLimbs == 10

\* ln 2 in that format
Ln2Limbs == <<758, 63, 920, 3643, 3017, 1946, 463, 3965, 535, 2839>>

\* the number of terms of the series of atanh that are above the last bit
\* for an argument z <= 1/5
AtanhTerms == 25

\* a * b on fixed-point values, truncated: the columns of the product below
\* the last two of the part that is dropped are left out
LFixMul(a, b) ==
    IF Len(a) + Len(b) <= LogLimbs THEN <<>>
    ELSE LTrim(Tail(Tail(LMulFrom(a, b, LogLimbs - 1, 0))))

\* 1 / n in fixed point
LFixInv(n) == LDivSmall(LShl(<<1>>, LogLimbs * LimbBits), n).q

\* st.acc = 1/(2k + 1) + w/(2k + 3) + w^2/(2k + 5) + ... for k = st.k, up to
\* the term of denominator 2 * AtanhTerms + 1; one step of Horner's rule
LAtanhTerm(w, st) ==
    [k |-> st.k - 1, acc |-> LAddC(LFixInv(2 * st.k - 1), LFixMul(w, st.acc), 0)]

\* Horner's rule down to k = 1, two steps at a time (AtanhTerms is odd)
RECURSIVE LAtanhPoly(_, _)
LAtanhPoly(w, st) ==
    IF st.k = 1 THEN st.acc ELSE LAtanhPoly(w, LAtanhTerm(w, LAtanhTerm(w, st)))

LAtanhAt(z, w) ==
    IF w = <<>> THEN z
    ELSE
    LAddC(z,
          LFixMul(LFixMul(z, w),
                  LAtanhPoly(w, [k |-> AtanhTerms, acc |-> LFixInv(2 * AtanhTerms + 1)])),
          0)

\* z^2 for z = zs / 2^s
LSquareShifted(sq, s) == IF 2 * s >= LBitLen(sq) THEN <<>> ELSE LShr(sq, 2 * s).q

\* atanh(z) * 2^s = zs + zs * z^2 / 3 + zs * z^4 / 5 + ... for zs = z * 2^s
LAtanhOf(zs, s) == LAtanhAt(zs, LSquareShifted(LFixMul(zs, zs), s))

\* atanh(u / v) * 2^s in fixed point, for natural numbers u and v with
\* u * 2^s < v and u / v <= 1/5.  Every step truncates, so the result is
\* below the value, by less than 3 units of the last place: one of the
\* quotient and two of the products and the reciprocals of the series.
LAtanhScaled(u, v, s) ==
    IF u = <<>> THEN <<>>
    ELSE LAtanhOf(LDivBig(LShl(u, LogLimbs * LimbBits + s), v).q, s)

\* the units of the last place by which twice the result of LAtanhScaled,
\* rounded up to a power of two, can be away from 2 atanh
LogErr == 8

\* the float64 of sign neg with magnitude m * 2^e cut to Mant bits (up = 0),
\* or the next one away from zero (up = 1), for m of at least Mant bits
F64Cut(neg, m, e, up) ==
    F64Canon(F64Pack(neg, LAddC(LShr(m, LBitLen(m) - Mant).q, <<>>, up),
                     e + LBitLen(m) - Mant))

\* the float64 values that can enclose a number of sign neg that is no
\* float64 and whose magnitude lies between lo * 2^e and hi * 2^e: the two
\* around it when lo and hi have no float64 between them, three otherwise
F64EncloseBetween(neg, lo, hi, e) ==
    {F64Cut(neg, lo, e, 0), F64Cut(neg, hi, e, 0), F64Cut(neg, hi, e, 1)}

\* the float64 values that can enclose a number within err * 2^e of
\* (-1)^na * ma * 2^e + (-1)^nb * mb * 2^e, zero when that sum is zero
F64EncloseSum(na, ma, nb, mb, err, e) ==
    LET neg == IF na = nb THEN na ELSE IF LLess(ma, mb) THEN nb ELSE na
        mag == IF na = nb THEN LAddC(ma, mb, 0) ELSE LDiff(ma, mb)
    IN IF mag = <<>> THEN {F64Zero}
       ELSE F64EncloseBetween(neg, LDiff(mag, LFromNat(err)),
                              LAddC(mag, LFromNat(err), 0), e)

\* The power of two the series is scaled by.  A float64 next to 1 has a
\* logarithm far below 1, all of it 2 atanh(u / v): u / v is then scaled to
\* lie between 1/4 and 1, so that the result has its bits above the last
\* place whatever its size.  Away from 1 no scaling is needed.
LogShift(ee, u, v) ==
    IF ee = 0 /\ u # <<>> THEN LBitLen(v) - LBitLen(u) - 1 ELSE 0

\* ee * ln 2 plus (minus, when neg) at2 / 2^s, where at2 is within LogErr
\* units of 2 atanh * 2^s and Ln2Limbs within one unit of ln 2 (s = 0 unless
\* ee = 0)
F64LogSum(ee, neg, at2, s) ==
    F64EncloseSum(ee < 0, IF ee = 0 THEN <<>> ELSE LMulSmall(Ln2Limbs, Abs(ee), 0),
                  neg, at2, Abs(ee) + LogErr, -(LogLimbs * LimbBits + s))

\* ee * ln 2 plus (minus, when neg) 2 atanh(u / v)
F64LogOut(ee, neg, u, v) ==
    F64LogSum(ee, neg, LMulSmall(LAtanhScaled(u, v, LogShift(ee, u, v)), 2, 0),
              LogShift(ee, u, v))

\* m has b bits: m * 2^e = y * 2^(e + b - 1) with 1 <= y < 2, and
\* ln y = 2 atanh((y - 1)/(y + 1)) for y <= 4/3,
\* ln y = ln 2 - 2 atanh((2 - y)/(2 + y)) above
F64LogAt(m, e, b) ==
    IF LLess(LShl(<<1>>, b + 1), LMulSmall(m, 3, 0))
    THEN F64LogOut(e + b, TRUE,
                   LDiff(LShl(<<1>>, b), m), LAddC(m, LShl(<<1>>, b), 0))
    ELSE F64LogOut(e + b - 1, FALSE,
                   LDiff(m, LShl(<<1>>, b - 1)), LAddC(m, LShl(<<1>>, b - 1), 0))

\* the float64 values np.log can return for a float64 a > 0: zero for a = 1,
\* whose logarithm is exact, and otherwise the float64 numbers that enclose
\* the logarithm, two of them, or three when the logarithm is too near a
\* float64 for the series to tell on which side of it it lies
F64Log(a) == F64LogAt(a.m, a.e, LBitLen(a.m))

\* The logarithm a build of numpy computes, as far as a run has consulted it,
\* is a set lg of pairs <<x, y>>, y being the value of np.log(x).
NpLog(lg, x) == (CHOOSE p \in lg : p[1] = x)[2]

LogPairs(x) == {<<x, y>> : y \in F64Log(x)}

\* the logarithms of the small integers, tabulated
IntLogs == UNION {LogPairs(F64Canon(F64FromInt(n))) : n \in 1..(4 * MaxN)}

\* every pair <<x, y>> a build can hold for the arguments args
LogTable(args) ==
    UNION {IF \E p \in IntLogs : p[1] = x THEN {p \in IntLogs : p[1] = x}
           ELSE LogPairs(x) : x \in args}

\* lg extended to the arguments args in every way a build can
LogBuildsOver(lg, new) ==
    {lg \cup h : h \in {h \in SUBSET new :
                          \A p \in new : Cardinality({q \in h : q[1] = p[1]}) = 1}}

LogBuilds(lg, args) == LogBuildsOver(lg, LogTable(args \ {p[1] : p \in lg}))

\* a < b for float64 values of either sign (zero is never negative here)
F64Lt(a, b) ==
    IF a.neg # b.neg THEN a.neg
    ELSE IF a.neg THEN F64Less([b EXCEPT !.neg = FALSE], [a EXCEPT !.neg = FALSE])
    ELSE F64Less(a, b)

\* acc + vals[lo] + ... + vals[hi], added one after the other
RECURSIVE F64SumSeq(_, _, _, _)
F64SumSeq(vals, lo, hi, acc) ==
    IF lo > hi THEN acc
    ELSE F64SumSeq(vals, lo + 1, hi, F64Add(acc, vals[lo]))

\* vals[at] + vals[at + 8] + ... over the given number of blocks of eight
RECURSIVE F64Lane(_, _, _)
F64Lane(vals, at, blocks) ==
    IF blocks = 1 THEN vals[at]
    ELSE F64Add(F64Lane(vals, at, blocks - 1), vals[at + 8 * (blocks - 1)])

F64Sum8(vals, lo, blocks) ==
    F64Add(F64Add(F64Add(F64Lane(vals, lo, blocks), F64Lane(vals, lo + 1, blocks)),
                  F64Add(F64Lane(vals, lo + 2, blocks), F64Lane(vals, lo + 3, blocks))),
           F64Add(F64Add(F64Lane(vals, lo + 4, blocks), F64Lane(vals, lo + 5, blocks)),
                  F64Add(F64Lane(vals, lo + 6, blocks), F64Lane(vals, lo + 7, blocks))))

\* where numpy splits an array of n > 128 values
F64SplitAt(n) == (n \div 2) - ((n \div 2) % 8)

\* np.sum of the n float64 values vals[lo], vals[lo + 1], ... of a contiguous
\* array: numpy adds fewer than 8 values one after the other, up to 128
\* values in eight interleaved partial sums, and splits longer arrays in two
RECURSIVE F64PairwiseSum(_, _, _)
F64PairwiseSum(vals, lo, n) ==
    IF n < 8 THEN F64SumSeq(vals, lo, lo + n - 1, F64Zero)
    ELSE IF n <= 128
         THEN F64SumSeq(vals, lo + 8 * (n \div 8), lo + n - 1, F64Sum8(vals, lo, n \div 8))
    ELSE F64Add(F64PairwiseSum(vals, lo, F64SplitAt(n)),
                F64PairwiseSum(vals, lo + F64SplitAt(n), n - F64SplitAt(n)))

(* ---------------- compute_aic, step 2.1: hard labels ---------------- *)
\* ||x - c||^2 as an exact rational
Norm2(x, c, dim) ==
    IF dim = 0 THEN Fin(0, 1)
    ELSE IF c.cnt = 0 THEN NaN
    ELSE Fin(ISum([j \in 1..dim |-> (c.cnt * x[j] - c.sum[j]) * (c.cnt * x[j] - c.sum[j])]),
             c.cnt * c.cnt)

\* a < b on two norms of line 81.  Norms whose exact values differ are
\* ordered as the exact values are: the coordinates are integers of a few
\* digits, so two different distances are much farther apart than the
\* rounding errors of float64.  Norms of equal exact value are the same
\* float64 number when the centroids are the same point, and are otherwise
\* compared as the float64 numbers numpy computes, which can differ in the
\* last digit.
NormLess(a, b) ==
    IF "f64" \in DOMAIN a /\ "f64" \in DOMAIN b /\ a.num = b.num /\ a.den = b.den
    THEN F64Less(a.f64, b.f64)
    ELSE FLess(a, b)

\* a variant that selects the farthest instead of the nearest
ArgMaxFirst(vals) ==
    (CHOOSE p \in 1..Len(vals) :
        /\ \A q \in 1..Len(vals) : ~NormLess(vals[p], vals[q])
        /\ \A q \in 1..(p - 1) : NormLess(vals[q], vals[p])) - 1

\* np.argmin of a non-empty list: the first NaN if there is one, otherwise the
\* first position holding the minimum (0-based)
ArgMin(vals) ==
    IF \E p \in 1..Len(vals) : vals[p].kind = "nan"
    THEN (CHOOSE p \in 1..Len(vals) :
            /\ vals[p].kind = "nan"
            /\ \A q \in 1..(p - 1) : vals[q].kind # "nan") - 1
    ELSE (CHOOSE p \in 1..Len(vals) :
            /\ \A q \in 1..Len(vals) : ~NormLess(vals[q], vals[p])
            /\ \A q \in 1..(p - 1) : NormLess(vals[p], vals[q])) - 1

\* the centroids a and b are the same point: their float64 coordinates, each
\* the rounded quotient sum / cnt, are then the same numbers
SameCentroid(a, b, dim) ==
    \A j \in 1..dim : a.sum[j] * b.cnt = b.sum[j] * a.cnt

\* the distances of point pt to the centroids of its candidates (lines 80-81):
\* the exact square of each, and the float64 norm (field f64) of those whose
\* exact value is shared with a candidate of the list that has another
\* centroid
CandDists(Xm, dim, cents, possible_nodes, pt) ==
    LET sq == [p \in 1..Len(possible_nodes) |->
                 Norm2(Xm[pt + 1], cents[possible_nodes[p] + 1], dim)]
    IN [p \in 1..Len(possible_nodes) |->
          IF /\ sq[p].kind = "fin"
             /\ \E q \in 1..Len(possible_nodes) :
                   /\ sq[q] = sq[p]
                   /\ ~SameCentroid(cents[possible_nodes[p] + 1],
                                    cents[possible_nodes[q] + 1], dim)
          THEN [kind |-> "fin", num |-> sq[p].num, den |-> sq[p].den,
                f64 |-> F64Norm(Xm[pt + 1], cents[possible_nodes[p] + 1], dim)]
          ELSE sq[p]]

\* which exception, if any, the body of the loop raises for point pt
ResolveRaises(cents, cands, pt) ==
    IF pt >= Len(cands) THEN "IndexError"
    ELSE IF Len(cands[pt + 1]) = 1 THEN "none"
    ELSE IF Len(cands[pt + 1]) = 0 THEN "ValueError"
    ELSE IF \E p \in 1..Len(cands[pt + 1]) : cands[pt + 1][p] >= Len(cents)
         THEN "IndexError"
    ELSE "none"

\* a variant that stores the position found by argmin instead of the
\* identifier at that position
ResolveLabelRelIdx(Xm, dim, cents, cands, pt) ==
    LET possible_nodes == cands[pt + 1]
    IN IF Len(possible_nodes) = 1 THEN possible_nodes[1]
       ELSE ArgMin(CandDists(Xm, dim, cents, possible_nodes, pt))

\* the nearest-centroid rule of lines 80-82 on its own
GeneralRule(Xm, dim, cents, possible_nodes, pt) ==
    possible_nodes[ArgMin(CandDists(Xm, dim, cents, possible_nodes, pt)) + 1]

\* a variant whose shortcut stores the position 0 instead of the identifier
\* found there
ResolveLabelShortcutZero(Xm, dim, cents, cands, pt) ==
    LET possible_nodes == cands[pt + 1]
    IN IF Len(possible_nodes) = 1 THEN 0
       ELSE possible_nodes[ArgMin(CandDists(Xm, dim, cents, possible_nodes, pt)) + 1]

\* the label of point pt (lines 76-82), defined when ResolveRaises is "none"
ResolveLabel(Xm, dim, cents, cands, pt) ==
    LET possible_nodes == cands[pt + 1]
    IN IF Len(possible_nodes) = 1 THEN possible_nodes[1]
       ELSE possible_nodes[ArgMin(CandDists(Xm, dim, cents, possible_nodes, pt)) + 1]

(* ---------------- compute_aic, step 2.2: list of clusters ---------------- *)
RECURSIVE ClustersLoop(_, _, _)
ClustersLoop(labels, pt, cl) ==
    IF pt >= Len(labels) THEN cl
    ELSE LET label == labels[pt + 1]
             n_clusters_now == Len(cl)
             to_add == label + 1 - n_clusters_now
             padded == IF to_add > 0 THEN cl \o [j \in 1..to_add |-> <<>>] ELSE cl
         IN ClustersLoop(labels, pt + 1,
                         [padded EXCEPT ![label + 1] = Append(@, pt)])

\* a variant that keeps the padding: the empty lists are not filtered out
BuildClustersKeepEmpty(labels) ==
    ClustersLoop(labels, 0, <<>>)

\* clusters = [np.array(c) for c in clusters if c]
BuildClusters(labels) ==
    SelectSeq(ClustersLoop(labels, 0, <<>>), LAMBDA c : c # <<>>)

(* ---------------- compute_aic, step 3: the AIC ---------------- *)
\* which exception, if any, line 96 raises: centroids[labels_unique] raises
\* IndexError for a label outside the table; with no node at all centroids is
\* np.array([]) of shape (0,), which does not broadcast against X of shape
\* (0, d) for d >= 2 (ValueError)
ScoreRaises(cents, labels, dim) ==
    IF \E p \in 1..Len(labels) : labels[p] >= Len(cents) THEN "IndexError"
    ELSE IF cents = <<>> /\ dim >= 2 THEN "ValueError"
    ELSE "none"

\* np.sum((X - centroids[labels_unique])**2): every point against the
\* resolution-time centroid of its label
SumSq(Xm, dim, cents, labels) ==
    FSum([p \in 1..Len(labels) |-> Norm2(Xm[p], cents[labels[p] + 1], dim)])

\* a variant that divides by d * N
ResidualDofAllN(dim, n, kk) == dim * n

\* d * (N - k), the divisor of line 96
ResidualDof(dim, n, kk) == dim * (n - kk)

\* sum / (d * (N - k)) in IEEE arithmetic: 0/0 is NaN, x/0 is +inf
SigmaSq(ssq, dim, n, kk) ==
    IF ssq.kind = "nan" THEN NaN
    ELSE IF ResidualDof(dim, n, kk) = 0 THEN (IF ssq.num = 0 THEN NaN ELSE PInf)
    ELSE Fin(ssq.num, ssq.den * ResidualDof(dim, n, kk))

ClusterSizes(cl) == [j \in 1..Len(cl) |-> Len(cl[j])]

\* the entry t of (X - centroids[labels_unique])**2 in the order of the
\* array, row by row: the difference is rounded, then its square
F64SqEntry(Xm, dim, cents, labels, t) ==
    F64Square(F64Sub(F64FromInt(Xm[((t - 1) \div dim) + 1][((t - 1) % dim) + 1]),
                     F64Mean(cents[labels[((t - 1) \div dim) + 1] + 1],
                             ((t - 1) % dim) + 1)))

\* np.sum((X - centroids[labels_unique])**2) in float64
F64SumSq(Xm, dim, cents, labels) ==
    F64PairwiseSum([t \in 1..(Len(labels) * dim) |-> F64SqEntry(Xm, dim, cents, labels, t)],
                   1, Len(labels) * dim)

\* 2 * np.pi
F64TwoPi == [neg |-> FALSE, m |-> <<3352, 1090, 2900, 543, 25>>, e |-> -50]

\* The locals after line 96.  sigma_sq is the quotient of the exact sum, which
\* tells the IEEE special values from the finite ones; when it is finite and
\* positive, f64 is the float64 the line computes, the rounded sum divided by
\* d * (N - k), and args are the numbers lines 97-99 take np.log of.
Line96(Xm, dim, n, cents, labels, cl) ==
    LET q == SigmaSq(SumSq(Xm, dim, cents, labels), dim, n, Len(cl))
        pos == q.kind = "fin" /\ q.num > 0
        f == IF pos THEN F64DivInt(F64SumSq(Xm, dim, cents, labels),
                                   ResidualDof(dim, n, Len(cl)))
             ELSE F64Zero
    IN [cluster_sizes |-> ClusterSizes(cl),
        sigma_sq |-> q,
        f64 |-> f,
        args |-> IF pos
                 THEN {F64Canon(F64FromInt(Len(cl[j]))) : j \in 1..Len(cl)}
                      \cup {F64Canon(F64FromInt(n)), F64Canon(F64Mul(F64TwoPi, f))}
                 ELSE {}]

\* cluster_sizes * np.log(cluster_sizes)
F64SizeTerms(lg, sizes) ==
    [j \in 1..Len(sizes) |->
        F64Mul(F64FromInt(sizes[j]), NpLog(lg, F64Canon(F64FromInt(sizes[j]))))]

\* Lines 97-101 for a finite sigma_sq > 0, every operation rounded as float64
\* does; np.sum adds the terms of line 97 in the order of the clusters.
F64Line97(lg, loc, kk) ==
    F64Mul(F64FromInt(2), F64PairwiseSum(F64SizeTerms(lg, loc.cluster_sizes), 1, kk))

F64Line98(lg, acc, n) ==
    F64Sub(acc, F64Mul(F64FromInt(2 * n), NpLog(lg, F64Canon(F64FromInt(n)))))

F64Line99(lg, acc, loc, dim, n) ==
    F64Sub(acc, F64Mul(F64FromInt(n * dim),
                       NpLog(lg, F64Canon(F64Mul(F64TwoPi, loc.f64)))))

F64Line100(acc, dim, n, kk) == F64Sub(acc, F64FromInt(dim * (n - kk)))

F64Line101(acc, dim, kk) == F64Sub(acc, F64FromInt(2 * kk * (dim + 1)))

\* a variant whose last term is 2 * k * d
AicShortPenalty(lg, loc, dim, n, kk) ==
    IF n = 0 THEN NaN
    ELSE IF loc.sigma_sq.kind = "nan" THEN NaN
    ELSE IF loc.sigma_sq.kind = "pinf" THEN (IF n * dim = 0 THEN NaN ELSE NInf)
    ELSE IF loc.sigma_sq.num = 0 THEN PInf
    ELSE [kind |-> "fin",
          f64 |-> F64Canon(F64Sub(
                     F64Line100(F64Line99(lg, F64Line98(lg, F64Line97(lg, loc, kk), n),
                                          loc, dim, n),
                                dim, n, kk),
                     F64FromInt(2 * kk * dim)))]

\* lines 97-101 on the locals loc of line 96 with the logarithm lg: the IEEE
\* special values (0 * log 0 is NaN, log 0 is -inf, log inf is inf), or the
\* float64 number the five lines leave in aic
Aic(lg, loc, dim, n, kk) ==
    IF n = 0 THEN NaN
    ELSE IF loc.sigma_sq.kind = "nan" THEN NaN
    ELSE IF loc.sigma_sq.kind = "pinf" THEN (IF n * dim = 0 THEN NaN ELSE NInf)
    ELSE IF loc.sigma_sq.num = 0 THEN PInf
    ELSE [kind |-> "fin",
          f64 |-> F64Canon(F64Line101(
                     F64Line100(F64Line99(lg, F64Line98(lg, F64Line97(lg, loc, kk), n),
                                          loc, dim, n),
                                dim, n, kk),
                     dim, kk))]

(* ---------------- inputs ---------------- *)
Coords == 0..MaxCoord

\* ordered candidate lists without repetition over the cell identifiers
CandLists ==
    {<<>>} \cup {<<a>> : a \in NodeIds}
           \cup {p \in NodeIds \X NodeIds : p[1] # p[2]}

\* The node table of a nerve whose node a holds, in increasing order, exactly
\* the points that have a among their candidates: the tables AIC_score reads
\* from a fitted pipeline are of this kind.
RECURSIVE Members(_, _, _)
Members(cands, a, p) ==
    IF p > Len(cands) THEN <<>>
    ELSE (IF \E q \in 1..Len(cands[p]) : cands[p][q] = a THEN <<p - 1>> ELSE <<>>)
         \o Members(cands, a, p + 1)

NodeTable(cands, n, numNodes) ==
    [a \in 1..numNodes |-> Members(SubSeq(cands, 1, IF Len(cands) < n THEN Len(cands) ELSE n),
                                   a - 1, 1)]

\* compute_aic takes the node table as an argument of its own.  For the
\* numbers of points in FreeSizes every table of at most two nodes is
\* enumerated, whatever the candidate lists are: S in increasing order
IndexList(S) ==
    [j \in 1..Cardinality(S) |-> CHOOSE v \in S : Cardinality({u \in S : u < v}) = j - 1]

FreeSizes == {0, 1, 2}

\* no node, one node, two nodes, and a node that lists a row X does not have
NodeTables(n) ==
    {<<>>, <<<<n>>>>}
    \cup {<<IndexList(S)>> : S \in SUBSET (0..(n - 1))}
    \cup {<<IndexList(S), IndexList(T)>> : S \in SUBSET (0..(n - 1)), T \in SUBSET (0..(n - 1))}

MkInput(n, dim, xs, nodes, c) ==
    [X |-> [shape |-> <<n, dim>>, data |-> xs],
     nodes_elements |-> nodes,
     X_idx_to_node_idxs |-> c]

\* hand-written inputs: the concrete scenarios of the specification, a
\* midpoint tie with both candidate orders, a planar input, and a table with
\* an unused identifier where the centroid nearest to point 2 belongs to a
\* cell (2) that is offered to point 3 only, a midpoint tie between the
\* centroids 2/3 and 4/3, which float64 does not represent exactly, a
\* planar data set with no point and no node, eleven points in three
\* clusters of 3, 4 and 4 points, and a node table that leaves out a point
\* that names the node
Scenarios ==
    {MkInput(4, 1, <<<<0>>, <<0>>, <<10>>, <<10>>>>,
             <<<<0, 1>>, <<2, 3>>>>, <<<<0>>, <<0>>, <<1>>, <<1>>>>),
     MkInput(4, 1, <<<<0>>, <<1>>, <<9>>, <<10>>>>,
             <<<<0, 1>>, <<2, 3>>>>, <<<<0>>, <<0>>, <<1>>, <<1>>>>),
     MkInput(3, 1, <<<<0>>, <<2>>, <<1>>>>,
             <<<<0, 2>>, <<1, 2>>>>, <<<<0>>, <<1>>, <<0, 1>>>>),
     MkInput(3, 1, <<<<0>>, <<2>>, <<1>>>>,
             <<<<0, 2>>, <<1, 2>>>>, <<<<0>>, <<1>>, <<1, 0>>>>),
     MkInput(4, 2, <<<<0, 0>>, <<2, 2>>, <<0, 1>>, <<2, 1>>>>,
             <<<<0, 2, 3>>, <<1, 2, 3>>>>, <<<<0>>, <<1>>, <<0, 1>>, <<1, 0>>>>),
     MkInput(4, 1, <<<<0>>, <<4>>, <<5>>, <<5>>>>,
             <<<<0, 2>>, <<>>, <<3>>, <<1, 2>>>>,
             <<<<0>>, <<3>>, <<0, 3>>, <<2>>>>),
     MkInput(4, 1, <<<<0>>, <<1>>, <<1>>, <<2>>>>,
             <<<<0, 1, 2>>, <<1, 2, 3>>>>, <<<<0>>, <<0, 1>>, <<1, 0>>, <<1>>>>),
     MkInput(0, 2, <<>>, <<>>, <<>>),
     MkInput(11, 1,
             <<<<0>>, <<0>>, <<0>>, <<10>>, <<10>>, <<10>>, <<11>>,
               <<20>>, <<20>>, <<20>>, <<21>>>>,
             <<<<0, 1, 2>>, <<3, 4, 5, 6>>, <<7, 8, 9, 10>>>>,
             <<<<0>>, <<0>>, <<0>>, <<1>>, <<1>>, <<1>>, <<1>>,
               <<2>>, <<2>>, <<2>>, <<2>>>>),
     MkInput(3, 1, <<<<0>>, <<1>>, <<5>>>>,
             <<<<0>>, <<2>>>>, <<<<0>>, <<0>>, <<1>>>>)}

(* ---------------- compute_aic as a function of its arguments ---------------- *)
RECURSIVE ResolveAll(_, _, _, _, _, _)
ResolveAll(Xm, dim, cents, cands, n, j) ==
    IF j >= n THEN [raised |-> "none", labels |-> <<>>]
    ELSE IF ResolveRaises(cents, cands, j) # "none"
         THEN [raised |-> ResolveRaises(cents, cands, j), labels |-> <<>>]
    ELSE LET rest == ResolveAll(Xm, dim, cents, cands, n, j + 1)
         IN [raised |-> rest.raised,
             labels |-> <<ResolveLabel(Xm, dim, cents, cands, j)>> \o rest.labels]

\* the numbers compute_aic(X, nodes_elements, X_idx_to_node_idxs) takes
\* np.log of when it returns a finite score
ComputeAicLogs(Xr, nodes, cands) ==
    LET n == Xr.shape[1]
        dim == Xr.shape[2]
    IN IF CentroidsRaise(n, nodes) THEN {}
       ELSE LET cents == Centroids(Xr.data, dim, nodes)
                res == ResolveAll(Xr.data, dim, cents, cands, n, 0)
            IN IF res.raised # "none" THEN {}
               ELSE IF ScoreRaises(cents, res.labels, dim) # "none" THEN {}
               ELSE Line96(Xr.data, dim, n, cents, res.labels, BuildClusters(res.labels)).args

\* the outcome of compute_aic(X, nodes_elements, X_idx_to_node_idxs) on a
\* build whose logarithm is lg: the exception that ends it, or "none" and
\* the returned score
ComputeAic(lg, Xr, nodes, cands) ==
    LET n == Xr.shape[1]
        dim == Xr.shape[2]
    IN IF CentroidsRaise(n, nodes) THEN [raised |-> "IndexError", aic |-> NaN]
       ELSE LET cents == Centroids(Xr.data, dim, nodes)
                res == ResolveAll(Xr.data, dim, cents, cands, n, 0)
            IN IF res.raised # "none" THEN [raised |-> res.raised, aic |-> NaN]
               ELSE IF ScoreRaises(cents, res.labels, dim) # "none"
                    THEN [raised |-> ScoreRaises(cents, res.labels, dim), aic |-> NaN]
               ELSE LET cl == BuildClusters(res.labels)
                    IN [raised |-> "none",
                        aic |-> Aic(lg, Line96(Xr.data, dim, n, cents, res.labels, cl),
                                    dim, n, Len(cl))]

(* ---------------- the sweep: inputs ---------------- *)
\* a < b on two scores of line 182, as float64 compares them
NpLess(a, b) ==
    \/ a.kind = "ninf" /\ b.kind \in {"fin", "pinf"}
    \/ a.kind = "fin" /\ b.kind = "pinf"
    \/ a.kind = "fin" /\ b.kind = "fin" /\ F64Lt(a.f64, b.f64)

\* np.argmax of a non-empty list of floats: the first NaN if there is one,
\* otherwise the first position holding the maximum (0-based)
ArgMax(vals) ==
    IF \E p \in 1..Len(vals) : vals[p].kind = "nan"
    THEN (CHOOSE p \in 1..Len(vals) :
            /\ vals[p].kind = "nan"
            /\ \A q \in 1..(p - 1) : vals[q].kind # "nan") - 1
    ELSE (CHOOSE p \in 1..Len(vals) :
            /\ \A q \in 1..Len(vals) : ~NpLess(vals[p], vals[q])
            /\ \A q \in 1..(p - 1) : NpLess(vals[q], vals[p])) - 1

\* the data set of the notebook, reduced to four points on a line
SweepXs ==
    {[shape |-> <<4, 1>>, data |-> <<<<0>>, <<0>>, <<10>>, <<10>>>>],
     [shape |-> <<4, 1>>, data |-> <<<<0>>, <<1>>, <<9>>, <<10>>>>]}

\* what fitting a configuration can yield: the node table of the graph and
\* the candidate map (labels_ of the clustering step, already translated to
\* node identifiers).  The two fits with overlapping nodes give the same
\* hard clustering of the second data set from different centroids: their
\* scores are equal as real numbers and differ in the last digit as float64
\* numbers.
SweepFits ==
    {[nodes_elements |-> <<<<0, 1>>, <<2, 3>>>>,
      cands |-> <<<<0>>, <<0>>, <<1>>, <<1>>>>],
     [nodes_elements |-> <<<<0>>, <<1>>, <<2>>, <<3>>>>,
      cands |-> <<<<0>>, <<1>>, <<2>>, <<3>>>>],
     [nodes_elements |-> <<<<0, 1, 3>>, <<1, 2, 3>>>>,
      cands |-> <<<<0>>, <<0, 1>>, <<1>>, <<0, 1>>>>],
     [nodes_elements |-> <<<<0, 1, 2>>, <<0, 2, 3>>>>,
      cands |-> <<<<0, 1>>, <<0>>, <<0, 1>>, <<1>>>>],
     [nodes_elements |-> <<<<0, 1>>, <<3>>>>,
      cands |-> <<<<0>>, <<0>>, <<>>, <<1>>>>]}

\* AIC_score lines 124-138 on a fitted clone
ScoreOfFit(lg, Xr, fit) == ComputeAic(lg, Xr, fit.nodes_elements, fit.cands)

\* the AIC_score calls a sweep makes, each with the logarithms it takes on
\* one build and its outcome on that build
SweepCalls ==
    UNION {{[data |-> xf[1], fit |-> xf[2], logs |-> h, out |-> ScoreOfFit(h, xf[1], xf[2])] :
               h \in LogBuilds({}, ComputeAicLogs(xf[1], xf[2].nodes_elements, xf[2].cands))} :
           xf \in SweepXs \X SweepFits}

\* [r[1] for r in grid_search_results]
SweepScores(gsr) == [c \in 1..Len(gsr) |-> gsr[c][2]]

(* ---------------- state ---------------- *)
VARIABLES
    X, nodes_elements, X_idx_to_node_idxs,  \* the arguments of compute_aic
    pc,             \* position in compute_aic
    N, d,           \* line 66
    centroids,      \* lines 69-70
    labels_unique,  \* the entries written so far by the loop of lines 75-82
    i,              \* loop index of lines 75-82
    clusters,       \* lines 84-91
    k,              \* line 94
    sigma_sq,       \* line 96
    aic,            \* the returned value
    np_log,         \* the logarithm of the build, on the numbers consulted so far
    raised,         \* the exception that ended the call, or "none"
    pipeline,       \* parameters of the shared pipeline: 0 as constructed, or a grid index
    fits,           \* per grid point, what fitting a clone with its parameters yields
    task,           \* per grid point, the state of its delayed AIC_score call
    results,        \* per grid point, the pair its call returned
    grid_search_results, \* line 170
    best_idx, best_grid, best_score,  \* lines 182-183
    sweep_pc,       \* position in the notebook cells of lines 170-195
    graph_vs,       \* line 125: the nodes of the graph of a fitted clone
    labels_,        \* line 133: per point, the (pullback set, partial cluster) pairs
    global_ids      \* lines 131-132

aic_vars == <<X, nodes_elements, X_idx_to_node_idxs, pc, N, d, centroids,
              labels_unique, i, clusters, k, sigma_sq, aic, raised>>

sweep_vars == <<pipeline, fits, task, results, grid_search_results,
                best_idx, best_grid, best_score, sweep_pc>>

score_vars == <<graph_vs, labels_, global_ids>>

aic_vars_but_pc == <<X, nodes_elements, X_idx_to_node_idxs, N, d, centroids,
                     labels_unique, i, clusters, k, sigma_sq, aic, raised>>

vars == <<aic_vars, np_log, sweep_vars, score_vars>>

\* a local that has not been bound yet
Unset == -1

\* The arguments of the call. Enumerated inputs: N points with coordinates in
\* Coords, a candidate sequence of the right length, one entry short
\* (N > 0), or one entry too long (the extra entry is never read), and the
\* node table of a nerve with those candidates; for the numbers of points in
\* FreeSizes, any node table.
SetInput(inp) ==
    /\ X = inp.X
    /\ nodes_elements = inp.nodes_elements
    /\ X_idx_to_node_idxs = inp.X_idx_to_node_idxs

EnumInput(n, dim, xs, c) ==
    SetInput(MkInput(n, dim, xs, NodeTable(c, n, Cardinality(NodeIds)), c))

InitAic ==
    /\ \/ \E n \in 0..MaxN, dim \in Dims :
            \E xs \in [1..n -> [1..dim -> Coords]] :
               \/ \E c \in [1..n -> CandLists] : EnumInput(n, dim, xs, c)
               \/ \E c \in [1..n -> CandLists] : EnumInput(n, dim, xs, Append(c, <<0>>))
               \/ n > 0 /\ \E c \in [1..(n - 1) -> CandLists] : EnumInput(n, dim, xs, c)
       \/ \E n \in FreeSizes, dim \in Dims :
            \E xs \in [1..n -> [1..dim -> Coords]], c \in [1..n -> CandLists],
               nodes \in NodeTables(n) :
               SetInput(MkInput(n, dim, xs, nodes, c))
       \/ \E inp \in Scenarios : SetInput(inp)
    /\ pc = "shape"
    /\ N = Unset /\ d = Unset
    /\ centroids = <<>>
    /\ labels_unique = <<>>
    /\ i = Unset
    /\ clusters = <<>>
    /\ k = Unset
    /\ sigma_sq = NaN
    /\ aic = NaN
    /\ raised = "none"
    /\ np_log = {}

(* ---------------- compute_aic, one action per step ---------------- *)
\* N, d = X.shape
Shape ==
    /\ pc = "shape"
    /\ N' = X.shape[1]
    /\ d' = X.shape[2]
    /\ pc' = "centroids"
    /\ UNCHANGED <<X, nodes_elements, X_idx_to_node_idxs, centroids,
                   labels_unique, i, clusters, k, sigma_sq, aic, raised>>
    /\ UNCHANGED <<np_log, sweep_vars, score_vars>>

\* lines 69-70, then np.empty(N) and the entry of the loop
ComputeCentroids ==
    /\ pc = "centroids"
    /\ IF CentroidsRaise(N, nodes_elements)
       THEN /\ pc' = "raised"
            /\ raised' = "IndexError"
            /\ UNCHANGED <<centroids, i>>
       ELSE /\ centroids' = Centroids(X.data, d, nodes_elements)
            /\ i' = 0
            /\ pc' = IF N = 0 THEN "clusters" ELSE "resolve"
            /\ UNCHANGED raised
    /\ UNCHANGED <<X, nodes_elements, X_idx_to_node_idxs, N, d,
                   labels_unique, clusters, k, sigma_sq, aic>>
    /\ UNCHANGED <<np_log, sweep_vars, score_vars>>

\* a variant of the iteration that sorts the candidate list of point i in
\* place before resolving it
ResolveStepSortInPlace ==
    /\ pc = "resolve"
    /\ LET e == ResolveRaises(centroids, X_idx_to_node_idxs, i)
       IN IF e # "none"
          THEN /\ pc' = "raised"
               /\ raised' = e
               /\ UNCHANGED <<labels_unique, i, X_idx_to_node_idxs>>
          ELSE LET c == X_idx_to_node_idxs[i + 1]
                   sorted == [X_idx_to_node_idxs EXCEPT ![i + 1] =
                                 IF Len(c) = 2 /\ c[1] > c[2] THEN <<c[2], c[1]>> ELSE c]
               IN /\ X_idx_to_node_idxs' = sorted
                  /\ labels_unique' =
                        Append(labels_unique, ResolveLabel(X.data, d, centroids, sorted, i))
                  /\ i' = i + 1
                  /\ pc' = IF i + 1 = N THEN "clusters" ELSE "resolve"
                  /\ UNCHANGED raised
    /\ UNCHANGED <<X, nodes_elements, N, d, centroids, clusters, k, sigma_sq, aic>>
    /\ UNCHANGED <<np_log, sweep_vars, score_vars>>

\* one iteration of the loop of lines 75-82
ResolveStep ==
    /\ pc = "resolve"
    /\ LET e == ResolveRaises(centroids, X_idx_to_node_idxs, i)
       IN IF e # "none"
          THEN /\ pc' = "raised"
               /\ raised' = e
               /\ UNCHANGED <<labels_unique, i>>
          ELSE /\ labels_unique' =
                     Append(labels_unique,
                            ResolveLabel(X.data, d, centroids, X_idx_to_node_idxs, i))
               /\ i' = i + 1
               /\ pc' = IF i + 1 = N THEN "clusters" ELSE "resolve"
               /\ UNCHANGED raised
    /\ UNCHANGED <<X, nodes_elements, X_idx_to_node_idxs, N, d, centroids,
                   clusters, k, sigma_sq, aic>>
    /\ UNCHANGED <<np_log, sweep_vars, score_vars>>

\* lines 84-91
ClustersStep ==
    /\ pc = "clusters"
    /\ clusters' = BuildClusters(labels_unique)
    /\ pc' = "score"
    /\ UNCHANGED <<X, nodes_elements, X_idx_to_node_idxs, N, d, centroids,
                   labels_unique, i, k, sigma_sq, aic, raised>>
    /\ UNCHANGED <<np_log, sweep_vars, score_vars>>

\* lines 94-103
ScoreStep ==
    /\ pc = "score"
    /\ k' = Len(clusters)
    /\ IF ScoreRaises(centroids, labels_unique, d) # "none"
       THEN /\ pc' = "raised"
            /\ raised' = ScoreRaises(centroids, labels_unique, d)
            /\ UNCHANGED <<sigma_sq, aic, np_log>>
       ELSE LET loc == Line96(X.data, d, N, centroids, labels_unique, clusters)
            IN /\ sigma_sq' = loc.sigma_sq
               /\ \E lg \in LogBuilds(np_log, loc.args) :
                     /\ np_log' = lg
                     /\ aic' = Aic(lg, loc, d, N, Len(clusters))
               /\ pc' = "done"
               /\ UNCHANGED raised
    /\ UNCHANGED <<X, nodes_elements, X_idx_to_node_idxs, N, d, centroids,
                   labels_unique, i, clusters>>
    /\ UNCHANGED <<sweep_vars, score_vars>>

SweepIdle ==
    /\ pipeline = 0
    /\ fits = <<>>
    /\ task = <<>>
    /\ results = <<>>
    /\ grid_search_results = <<>>
    /\ best_idx = Unset /\ best_grid = Unset /\ best_score = NaN
    /\ sweep_pc = "idle"

\* no AIC_score call is in progress
ScoreIdle ==
    /\ graph_vs = <<>>
    /\ labels_ = <<>>
    /\ global_ids = <<>>

Init == InitAic /\ SweepIdle /\ ScoreIdle

Next == Shape \/ ComputeCentroids \/ ResolveStep \/ ClustersStep \/ ScoreStep

Spec == Init /\ [][Next]_vars

(* ---------------- the sweep, lines 147-195 ---------------- *)
Configs == 1..MaxConfigs

InitSweep ==
    /\ X \in SweepXs
    /\ nodes_elements = <<>> /\ X_idx_to_node_idxs = <<>>
    /\ pc = "idle"
    /\ N = Unset /\ d = Unset /\ i = Unset /\ k = Unset
    /\ centroids = <<>> /\ labels_unique = <<>> /\ clusters = <<>>
    /\ sigma_sq = NaN /\ aic = NaN /\ raised = "none"
    /\ np_log = {}
    /\ pipeline = 0
    /\ fits \in [Configs -> SweepFits]
    /\ task = [c \in Configs |-> "pending"]
    /\ results = [c \in Configs |-> <<c, NaN>>]
    /\ grid_search_results = <<>>
    /\ best_idx = Unset /\ best_grid = Unset /\ best_score = NaN
    /\ sweep_pc = "parallel"
    /\ ScoreIdle

\* a variant without the clone: the worker sets the parameters of grid point
\* c on the shared pipeline and fits it
FitCloneShared(c) ==
    /\ sweep_pc = "parallel"
    /\ task[c] = "pending"
    /\ task' = [task EXCEPT ![c] = "fitted"]
    /\ pipeline' = c
    /\ UNCHANGED <<np_log, score_vars>>
    /\ UNCHANGED <<aic_vars, fits, results, grid_search_results,
                   best_idx, best_grid, best_score, sweep_pc>>

\* lines 116-118 in a worker: clone the shared pipeline, set the parameters
\* of grid point c on the clone and fit the clone
FitClone(c) ==
    /\ sweep_pc = "parallel"
    /\ task[c] = "pending"
    /\ task' = [task EXCEPT ![c] = "fitted"]
    /\ UNCHANGED <<np_log, score_vars>>
    /\ UNCHANGED <<aic_vars, pipeline, fits, results, grid_search_results,
                   best_idx, best_grid, best_score, sweep_pc>>

\* lines 124-138 in a worker: extract the graph and return
\* (pipeline_params, compute_aic(...)), or end with the exception it raises.
\* The call takes its logarithms from the build: those an earlier call took
\* have the value they had then.
ScoreClone(c) ==
    /\ sweep_pc = "parallel"
    /\ task[c] = "fitted"
    /\ \E call \in SweepCalls :
          /\ call.data = X
          /\ call.fit = fits[c]
          /\ \A p \in call.logs, q \in np_log : p[1] = q[1] => p = q
          /\ np_log' = np_log \cup call.logs
          /\ LET r == call.out
             IN IF r.raised # "none"
                THEN /\ task' = [task EXCEPT ![c] = "raised"]
                     /\ UNCHANGED results
                ELSE /\ task' = [task EXCEPT ![c] = "returned"]
                     /\ results' = [results EXCEPT ![c] = <<c, r.aic>>]
    /\ UNCHANGED score_vars
    /\ UNCHANGED <<aic_vars, pipeline, fits, grid_search_results,
                   best_idx, best_grid, best_score, sweep_pc>>

\* a variant that returns the results last configuration first
CollectReversed ==
    /\ sweep_pc = "parallel"
    /\ \A c \in Configs : task[c] = "returned"
    /\ grid_search_results' = [c \in Configs |-> results[MaxConfigs + 1 - c]]
    /\ sweep_pc' = "argmax"
    /\ UNCHANGED <<np_log, score_vars>>
    /\ UNCHANGED <<aic_vars, pipeline, fits, task, results,
                   best_idx, best_grid, best_score>>

\* Parallel(...) returns the list of results in grid order once every call
\* has returned
Collect ==
    /\ sweep_pc = "parallel"
    /\ \A c \in Configs : task[c] = "returned"
    /\ grid_search_results' = [c \in Configs |-> results[c]]
    /\ sweep_pc' = "argmax"
    /\ UNCHANGED <<np_log, score_vars>>
    /\ UNCHANGED <<aic_vars, pipeline, fits, task, results,
                   best_idx, best_grid, best_score>>

\* Parallel(...) re-raises the exception of a failed call in the notebook:
\* line 170 binds nothing and the cells after it do not run
Abort ==
    /\ sweep_pc = "parallel"
    /\ \E c \in Configs : task[c] = "raised"
    /\ sweep_pc' = "aborted"
    /\ UNCHANGED <<np_log, score_vars>>
    /\ UNCHANGED <<aic_vars, pipeline, fits, task, results, grid_search_results,
                   best_idx, best_grid, best_score>>

\* best_grid, best_score = grid_search_results[best_idx]
BindBest(idx) ==
    /\ best_idx' = idx
    /\ best_grid' = grid_search_results[idx + 1][1]
    /\ best_score' = grid_search_results[idx + 1][2]

\* lines 182-183
SelectBest ==
    /\ sweep_pc = "argmax"
    /\ BindBest(ArgMax(SweepScores(grid_search_results)))
    /\ sweep_pc' = "set_params"
    /\ UNCHANGED <<np_log, score_vars>>
    /\ UNCHANGED <<aic_vars, pipeline, fits, task, results, grid_search_results>>

\* line 193
SetParams ==
    /\ sweep_pc = "set_params"
    /\ pipeline' = best_grid
    /\ sweep_pc' = "done"
    /\ UNCHANGED <<np_log, score_vars>>
    /\ UNCHANGED <<aic_vars, fits, task, results, grid_search_results,
                   best_idx, best_grid, best_score>>

NextSweep ==
    \/ \E c \in Configs : FitClone(c)
    \/ \E c \in Configs : ScoreClone(c)
    \/ Collect
    \/ Abort
    \/ SelectBest
    \/ SetParams

SweepSpec == InitSweep /\ [][NextSweep]_vars

(* ---------------- AIC_score on one fitted clone ---------------- *)
\* the (pullback_set_label, partial_cluster_label) pairs of the fitted clone
Pairs == {<<0, 0>>, <<1, 0>>, <<1, 1>>}

\* per point, an ordered list of one or two distinct pairs
PairLists ==
    {<<t>> : t \in Pairs} \cup {tt \in Pairs \X Pairs : tt[1] # tt[2]}

\* the orders in which the graph can hold nodes for distinct pairs
PairSeqs ==
    {<<>>} \cup {<<t>> : t \in Pairs}
           \cup {tt \in Pairs \X Pairs : tt[1] # tt[2]}
           \cup {tt \in Pairs \X Pairs \X Pairs :
                    tt[1] # tt[2] /\ tt[1] # tt[3] /\ tt[2] # tt[3]}

\* the data of a call: two points on a line
ScoreXs ==
    {[shape |-> <<2, 1>>, data |-> <<<<0>>, <<1>>>>],
     [shape |-> <<2, 1>>, data |-> <<<<1>>, <<1>>>>]}

\* the points (0-based, increasing) whose labels_ entry holds pair t
RECURSIVE PointsOfPair(_, _, _)
PointsOfPair(lab, t, p) ==
    IF p > Len(lab) THEN <<>>
    ELSE (IF \E q \in 1..Len(lab[p]) : lab[p][q] = t THEN <<p - 1>> ELSE <<>>)
         \o PointsOfPair(lab, t, p + 1)

\* graph.vs of a nerve holding one node per pair of ps, in that order
GraphNodes(ps, lab) ==
    [a \in 1..Len(ps) |->
        [pullback_set_label |-> ps[a][1],
         partial_cluster_label |-> ps[a][2],
         node_elements |-> PointsOfPair(lab, ps[a], 1)]]

\* a variant that numbers the nodes from 1
GlobalIdsFromOne(vs) ==
    [t \in {<<vs[a].pullback_set_label, vs[a].partial_cluster_label>> : a \in 1..Len(vs)} |->
        CHOOSE a \in 1..Len(vs) :
            /\ <<vs[a].pullback_set_label, vs[a].partial_cluster_label>> = t
            /\ \A b \in (a + 1)..Len(vs) :
                  <<vs[b].pullback_set_label, vs[b].partial_cluster_label>> # t]

\* lines 131-132: the dict from the pair of node i to i (0-based); for a pair
\* held by several nodes the last one stays
GlobalIds(vs) ==
    [t \in {<<vs[a].pullback_set_label, vs[a].partial_cluster_label>> : a \in 1..Len(vs)} |->
        (CHOOSE a \in 1..Len(vs) :
            /\ <<vs[a].pullback_set_label, vs[a].partial_cluster_label>> = t
            /\ \A b \in (a + 1)..Len(vs) :
                  <<vs[b].pullback_set_label, vs[b].partial_cluster_label>> # t) - 1]

\* lines 134-135: the exception the comprehension raises, if any, is that of
\* the first point that fails: labels[i] is missing (IndexError), or one of
\* its pairs is not a key of global_ids (KeyError)
TranslateRaises(gids, lab, n) ==
    LET bad == {p \in 1..n : p > Len(lab)
                             \/ \E q \in 1..Len(lab[p]) : lab[p][q] \notin DOMAIN gids}
    IN IF bad = {} THEN "none"
       ELSE IF (CHOOSE p \in bad : \A q \in bad : p <= q) > Len(lab) THEN "IndexError"
       ELSE "KeyError"

\* lines 134-135: [[global_ids[tup] for tup in labels[i]] for i in range(len(X))]
Translate(gids, lab, n) ==
    [p \in 1..n |-> [q \in 1..Len(lab[p]) |-> gids[lab[p][q]]]]

InitScore ==
    /\ X \in ScoreXs
    /\ labels_ \in [1..2 -> PairLists]
    /\ \E ps \in PairSeqs : graph_vs = GraphNodes(ps, labels_)
    /\ global_ids = <<>>
    /\ nodes_elements = <<>> /\ X_idx_to_node_idxs = <<>>
    /\ pc = "graph"
    /\ N = Unset /\ d = Unset /\ i = Unset /\ k = Unset
    /\ centroids = <<>> /\ labels_unique = <<>> /\ clusters = <<>>
    /\ sigma_sq = NaN /\ aic = NaN /\ raised = "none"
    /\ np_log = {}
    /\ SweepIdle

\* lines 124-128
ReadGraph ==
    /\ pc = "graph"
    /\ nodes_elements' = [a \in 1..Len(graph_vs) |-> graph_vs[a].node_elements]
    /\ pc' = "global_ids"
    /\ UNCHANGED <<X, X_idx_to_node_idxs, N, d, centroids, labels_unique, i,
                   clusters, k, sigma_sq, aic, raised>>
    /\ UNCHANGED <<np_log, sweep_vars, score_vars>>

\* lines 131-132
BuildGlobalIds ==
    /\ pc = "global_ids"
    /\ global_ids' = GlobalIds(graph_vs)
    /\ pc' = "translate"
    /\ UNCHANGED aic_vars_but_pc
    /\ UNCHANGED <<np_log, sweep_vars, graph_vs, labels_>>

\* lines 133-135, then the call of compute_aic on line 138
TranslateStep ==
    /\ pc = "translate"
    /\ LET e == TranslateRaises(global_ids, labels_, X.shape[1])
       IN IF e # "none"
          THEN /\ pc' = "raised"
               /\ raised' = e
               /\ UNCHANGED X_idx_to_node_idxs
          ELSE /\ X_idx_to_node_idxs' = Translate(global_ids, labels_, X.shape[1])
               /\ pc' = "shape"
               /\ UNCHANGED raised
    /\ UNCHANGED <<X, nodes_elements, N, d, centroids, labels_unique, i,
                   clusters, k, sigma_sq, aic>>
    /\ UNCHANGED <<np_log, sweep_vars, score_vars>>

NextScore ==
    \/ ReadGraph
    \/ BuildGlobalIds
    \/ TranslateStep
    \/ Next

ScoreSpec == InitScore /\ [][NextScore]_vars

(* ======================= properties ======================= *)
\* a < b, a >= b as IEEE comparisons: false whenever an operand is NaN
FLt(a, b) == a.kind = "fin" /\ b.kind = "fin" /\ FLess(a, b)
FGeq(a, b) == a.kind # "nan" /\ b.kind # "nan" /\ ~NpLess(a, b)

InSeq(v, sq) == \E q \in 1..Len(sq) : sq[q] = v

\* every point 0..N-1 has a non-empty candidate list
EveryPointHasCandidates ==
    /\ Len(X_idx_to_node_idxs) >= X.shape[1]
    /\ \A p \in 1..X.shape[1] : X_idx_to_node_idxs[p] # <<>>

\* the loop of lines 75-82 has run to its end
Resolved == pc \in {"clusters", "score", "done"}

\* distance of point p (1-based) to the centroid of its q-th candidate
DistTo(p, q) == Norm2(X.data[p], centroids[X_idx_to_node_idxs[p][q] + 1], d)

\* C1: when every point has a non-empty candidate list, every label written
\* is one of that point's own candidates, and once the resolution loop has
\* ended there are exactly N labels.
Thm_C1_LabelsFromOwnCandidates ==
    EveryPointHasCandidates =>
        /\ \A p \in 1..Len(labels_unique) :
              InSeq(labels_unique[p], X_idx_to_node_idxs[p])
        /\ Resolved => Len(labels_unique) = X.shape[1]

Wit_C1 ==
    /\ pc = "done"
    /\ EveryPointHasCandidates
    /\ Len(labels_unique) = N
    /\ \E p \in 1..N :
          /\ Len(X_idx_to_node_idxs[p]) = 2
          /\ \E q \in 1..N : ~InSeq(X_idx_to_node_idxs[q][1], X_idx_to_node_idxs[p])

\* C2: for a point with two or more candidates, no candidate of that point is
\* strictly closer to it than the candidate chosen as its label.
Thm_C2_NearestCentroid ==
    \A p \in 1..Len(labels_unique) :
        Len(X_idx_to_node_idxs[p]) >= 2 =>
            LET chosen == Norm2(X.data[p], centroids[labels_unique[p] + 1], d)
            IN \A q \in 1..Len(X_idx_to_node_idxs[p]) : ~FLt(DistTo(p, q), chosen)

Wit_C2 ==
    /\ pc = "done"
    /\ \E p \in 1..Len(labels_unique) :
          /\ Len(X_idx_to_node_idxs[p]) = 2
          /\ labels_unique[p] = X_idx_to_node_idxs[p][2]
          /\ FLt(DistTo(p, 2), DistTo(p, 1))

\* C3: when several candidates of a point are at the minimum distance, the
\* label is the one listed first among them, whatever the identifiers are;
\* a point at the midpoint of the centroids of its candidates [0, 1] gets
\* label 0.  The distances are the exact Euclidean ones.
Cex_C3_TieFirstListed ==
    \A p \in 1..Len(labels_unique) :
       \A r \in 1..Len(X_idx_to_node_idxs[p]) :
          ( /\ Len(X_idx_to_node_idxs[p]) >= 2
            /\ \A q \in 1..Len(X_idx_to_node_idxs[p]) : ~FLt(DistTo(p, q), DistTo(p, r))
            /\ \A q \in 1..(r - 1) : FLt(DistTo(p, r), DistTo(p, q))
            /\ \E q \in (r + 1)..Len(X_idx_to_node_idxs[p]) : DistTo(p, q) = DistTo(p, r) )
          => labels_unique[p] = X_idx_to_node_idxs[p][r]

\* the points resolved to the same cluster as point p (0-based indices)
RECURSIVE SameLabel(_, _, _)
SameLabel(labels, v, p) ==
    IF p > Len(labels) THEN <<>>
    ELSE (IF labels[p] = v THEN <<p - 1>> ELSE <<>>) \o SameLabel(labels, v, p + 1)

\* sum of squared distances to the centroids recomputed from the hard partition
HardSumSq ==
    FSum([p \in 1..Len(labels_unique) |->
            Norm2(X.data[p],
                  Centroid(X.data, d, SameLabel(labels_unique, labels_unique[p], 1)),
                  d)])

\* C4: sigma_sq is the sum of squared distances of the points to the mean of
\* the points resolved to their cluster, divided by d * (N - k).
Cex_C4_HardCentroidVariance ==
    (pc = "done" /\ d * (N - k) > 0) => sigma_sq = SigmaSq(HardSumSq, d, N, k)

\* the invalid-input conditions: N = 0, d = 0, an empty candidate list, or a
\* candidate sequence whose length is not N
InvalidInput ==
    \/ X.shape[1] = 0
    \/ X.shape[2] = 0
    \/ Len(X_idx_to_node_idxs) # X.shape[1]
    \/ \E p \in 1..Len(X_idx_to_node_idxs) : X_idx_to_node_idxs[p] = <<>>

\* C5: on a well-formed input, once k is known, the call ends with an error
\* exactly when N - k <= 0 (for N = 1 with one candidate it must fail).
Cex_C5_DegenerateIffNMinusK ==
    (~InvalidInput /\ pc \in {"done", "raised"} /\ k # Unset)
        => ((N - k <= 0) <=> (pc = "raised"))

\* C6: when N > k and sigma_sq is 0 the call fails and returns no score.
Cex_C6_ZeroVarianceFails ==
    ~(pc = "done" /\ N > k /\ sigma_sq = Fin(0, 1))

\* C7: on an invalid input compute_aic returns no score.
Cex_C7_InvalidInputNoScore ==
    InvalidInput => pc # "done"

\* C8: when an empty candidate list (the only defect of the input) ends the
\* call with an error, no centroid has been computed and no label has been
\* assigned before the error.
Cex_C8_ErrorBeforeNumericWork ==
    ( /\ X.shape[1] > 0 /\ X.shape[2] > 0
      /\ Len(X_idx_to_node_idxs) = X.shape[1]
      /\ InvalidInput
      /\ pc = "raised" )
    => (centroids = <<>> /\ labels_unique = <<>>)

\* C9: a failing AIC_score call does not abort the sweep.
Cex_C9_FailureDoesNotAbort ==
    sweep_pc # "aborted"

\* C10: after the sweep, (best_grid, best_score) is a collected pair whose
\* score is greater than or equal to the score of every collected pair.
Cex_C10_BestIsMaximal ==
    sweep_pc \in {"set_params", "done"} =>
        /\ \E c \in Configs : grid_search_results[c] = <<best_grid, best_score>>
        /\ \A c \in Configs : FGeq(best_score, grid_search_results[c][2])

(* ---------------- the cluster list and the score ---------------- *)
\* the bijections of the identifiers 0..m-1
Perms(m) ==
    {f \in [0..(m - 1) -> 0..(m - 1)] : \A a, b \in 0..(m - 1) : f[a] = f[b] => a = b}

\* the candidate map and the node table with every identifier a of the table
\* renamed f[a]
RenamedCands(cands, f) ==
    [p \in 1..Len(cands) |->
        [q \in 1..Len(cands[p]) |->
            IF cands[p][q] \in DOMAIN f THEN f[cands[p][q]] ELSE cands[p][q]]]

RenamedNodes(nodes, f) ==
    [b \in 1..Len(nodes) |-> nodes[(CHOOSE a \in 0..(Len(nodes) - 1) : f[a] = b - 1) + 1]]

Count(sq, v) == Cardinality({j \in 1..Len(sq) : sq[j] = v})

SameBag(s1, s2) ==
    /\ Len(s1) = Len(s2)
    /\ \A j \in 1..Len(s1) : Count(s1, s1[j]) = Count(s2, s1[j])

\* C11: renaming the cell identifiers by any bijection, in the candidate
\* lists and in the node table alike, leaves unchanged which points share a
\* label, k, the multiset of cluster sizes, the sum of squared distances and
\* the returned aic.
Cex_C11_RenamingInvariant ==
    pc = "done" =>
        LET ssq == SumSq(X.data, d, centroids, labels_unique)
        IN \A f \in Perms(Len(nodes_elements)) :
              LET cands2 == RenamedCands(X_idx_to_node_idxs, f)
                  nodes2 == RenamedNodes(nodes_elements, f)
                  cents2 == Centroids(X.data, d, nodes2)
                  res2 == ResolveAll(X.data, d, cents2, cands2, N, 0)
                  cl2 == BuildClusters(res2.labels)
                  ssq2 == SumSq(X.data, d, cents2, res2.labels)
              IN /\ res2.raised = "none"
                 /\ \A p \in 1..N : res2.labels[p] = f[labels_unique[p]]
                 /\ Len(cl2) = k
                 /\ SameBag(ClusterSizes(cl2), ClusterSizes(clusters))
                 /\ ssq2 = ssq
                 /\ ScoreRaises(cents2, res2.labels, d) = "none"
                 /\ Aic(np_log, Line96(X.data, d, N, cents2, res2.labels, cl2),
                        d, N, Len(cl2)) = aic

ClustersBuilt == pc \in {"score", "done"}

\* grouping in order of first occurrence of each label
RECURSIVE FirstOccLoop(_, _, _, _)
FirstOccLoop(labels, p, seen, cl) ==
    IF p >= Len(labels) THEN cl
    ELSE LET label == labels[p + 1]
         IN IF \E j \in 1..Len(seen) : seen[j] = label
            THEN LET j == CHOOSE j \in 1..Len(seen) : seen[j] = label
                 IN FirstOccLoop(labels, p + 1, seen, [cl EXCEPT ![j] = Append(@, p)])
            ELSE FirstOccLoop(labels, p + 1, Append(seen, label), Append(cl, <<p>>))

\* C12: the clusters are listed in order of first occurrence of their label
\* in the hard-label sequence: cluster j holds the points of the j-th
\* distinct label met when scanning the points 0..N-1.
Cex_C12_FirstOccurrenceOrder ==
    (ClustersBuilt /\ ~InvalidInput)
        => clusters = FirstOccLoop(labels_unique, 0, <<>>, <<>>)

\* C13: the cluster list is a partition of the point indices 0..N-1: every
\* cluster is non-empty, every index is in exactly one cluster exactly once,
\* and the cluster sizes sum to N.
Thm_C13_ClustersPartition ==
    ClustersBuilt =>
        /\ \A j \in 1..Len(clusters) : Len(clusters[j]) >= 1
        /\ \A p \in 0..(N - 1) :
              \E j \in 1..Len(clusters) :
                 /\ Count(clusters[j], p) = 1
                 /\ \A j2 \in 1..Len(clusters) : j2 # j => Count(clusters[j2], p) = 0
        /\ ISum(ClusterSizes(clusters)) = N

Wit_C13 ==
    /\ pc = "done"
    /\ N = 3
    /\ Len(clusters) = 2
    /\ clusters[1] = <<0, 2>>

\* the identifiers that appear in the candidate lists of the points
CandidateIds ==
    UNION {{X_idx_to_node_idxs[p][q] : q \in 1..Len(X_idx_to_node_idxs[p])} :
              p \in 1..(IF Len(X_idx_to_node_idxs) < X.shape[1]
                        THEN Len(X_idx_to_node_idxs) ELSE X.shape[1])}

\* C14: the number of resolved clusters never exceeds the number of distinct
\* identifiers appearing in the candidate lists.
Thm_C14_KAtMostDistinctIds ==
    k # Unset => k <= Cardinality(CandidateIds)

Wit_C14 ==
    /\ pc = "done"
    /\ k = 1
    /\ Cardinality(CandidateIds) = 2

\* every point has exactly one candidate
SingleCandidates ==
    /\ Len(X_idx_to_node_idxs) >= X.shape[1]
    /\ \A p \in 1..X.shape[1] : Len(X_idx_to_node_idxs[p]) = 1

\* the nearest-centroid rule of lines 80-82 yields label v for point p
\* (1-based): it raises IndexError on a candidate outside the centroid table
GeneralRuleGives(p, v) ==
    /\ \A q \in 1..Len(X_idx_to_node_idxs[p]) : X_idx_to_node_idxs[p][q] < Len(centroids)
    /\ v = GeneralRule(X.data, d, centroids, X_idx_to_node_idxs[p], p - 1)

\* C15: when every point has exactly one candidate, the resolver's output is
\* that sole candidate for every point, and the single-candidate shortcut
\* gives the label the nearest-centroid rule gives on the one-element list.
Cex_C15_SingleCandidateShortcut ==
    SingleCandidates =>
        /\ Resolved => Len(labels_unique) = X.shape[1]
        /\ \A p \in 1..Len(labels_unique) :
              /\ labels_unique[p] = X_idx_to_node_idxs[p][1]
              /\ GeneralRuleGives(p, labels_unique[p])

\* every identifier of a candidate list of a point indexes the node table
CandidatesIndexTable == \A a \in CandidateIds : a < Len(nodes_elements)

\* C15, amended: when every point has exactly one candidate, the resolver's
\* output is that sole candidate for every point; when moreover every
\* candidate indexes the node table, the single-candidate shortcut gives the
\* label the nearest-centroid rule gives on the one-element list.
Thm_C15_SingleCandidateShortcut ==
    SingleCandidates =>
        /\ Resolved => Len(labels_unique) = X.shape[1]
        /\ \A p \in 1..Len(labels_unique) :
              /\ labels_unique[p] = X_idx_to_node_idxs[p][1]
              /\ CandidatesIndexTable => GeneralRuleGives(p, labels_unique[p])

Wit_C15 ==
    /\ pc = "done"
    /\ SingleCandidates
    /\ CandidatesIndexTable
    /\ N >= 2
    /\ labels_unique[1] # labels_unique[2]
    /\ d = 1

\* the points (1-based) whose candidate list holds identifier a
PointsListing(a) ==
    {p \in 1..X.shape[1] :
        /\ p <= Len(X_idx_to_node_idxs)
        /\ InSeq(a, X_idx_to_node_idxs[p])}

RECURSIVE CoordSum(_, _)
CoordSum(S, j) ==
    IF S = {} THEN 0
    ELSE LET p == CHOOSE p \in S : TRUE
         IN X.data[p][j] + CoordSum(S \ {p}, j)

CentroidsComputed == pc \notin {"shape", "centroids"} /\ i # Unset

\* the node table is the inverse of the candidate map
TableIsInverse ==
    \A a \in 1..Len(nodes_elements) :
        /\ \A e \in 1..Len(nodes_elements[a]) : nodes_elements[a][e] + 1 \in PointsListing(a - 1)
        /\ \A p \in PointsListing(a - 1) : Count(nodes_elements[a], p - 1) = 1

\* C16: for every identifier appearing in a candidate list, the centroid used
\* during resolution is the per-feature mean over exactly the points that
\* list that identifier among their candidates.
Cex_C16_SoftCentroidOverListingPoints ==
    CentroidsComputed =>
        \A a \in CandidateIds :
            LET listing == PointsListing(a)
            IN /\ a < Len(centroids)
               /\ centroids[a + 1].cnt = Cardinality(listing)
               /\ centroids[a + 1].cnt >= 1
               /\ \A j \in 1..d : centroids[a + 1].sum[j] = CoordSum(listing, j)

\* C16, amended: when the node table is the inverse of the candidate map, a
\* node for every identifier of a candidate list and in each node exactly
\* the points that list it (the tables AIC_score passes are of this kind),
\* the centroid used during resolution for such an identifier is the
\* per-feature mean over exactly the points that list that identifier among
\* their candidates.
Thm_C16_SoftCentroidOverListingPoints ==
    (CentroidsComputed /\ CandidatesIndexTable /\ TableIsInverse) =>
        \A a \in CandidateIds :
            LET listing == PointsListing(a)
            IN /\ a < Len(centroids)
               /\ centroids[a + 1].cnt = Cardinality(listing)
               /\ centroids[a + 1].cnt >= 1
               /\ \A j \in 1..d : centroids[a + 1].sum[j] = CoordSum(listing, j)

Wit_C16 ==
    /\ pc = "done"
    /\ d = 1
    /\ CandidatesIndexTable
    /\ TableIsInverse
    /\ \E a \in CandidateIds :
          /\ Cardinality(PointsListing(a)) = 2
          /\ centroids[a + 1].sum[1] = 1
          /\ \E p \in PointsListing(a) : Len(X_idx_to_node_idxs[p]) = 2

\* the input of the worked scenario
IsScenarioC17 ==
    /\ X = [shape |-> <<4, 1>>, data |-> <<<<0>>, <<1>>, <<9>>, <<10>>>>]
    /\ X_idx_to_node_idxs = <<<<0>>, <<0>>, <<1>>, <<1>>>>
    /\ nodes_elements = <<<<0, 1>>, <<2, 3>>>>

\* C17: for X = [[0],[1],[9],[10]] with candidates [[0],[0],[1],[1]] the hard
\* labels are [0,0,1,1], k = 2, the cluster sizes are [2,2], the sum of
\* squared distances is 1 and sigma_sq is 1/2.
Thm_C17_WorkedScenario ==
    (IsScenarioC17 /\ pc = "done") =>
        /\ labels_unique = <<0, 0, 1, 1>>
        /\ k = 2
        /\ ClusterSizes(clusters) = <<2, 2>>
        /\ SumSq(X.data, d, centroids, labels_unique) = Fin(1, 1)
        /\ sigma_sq = Fin(1, 2)
        /\ aic.kind = "fin"

Wit_C17 ==
    /\ IsScenarioC17
    /\ pc = "done"
    /\ sigma_sq.kind = "fin"

\* C18: compute_aic is pure: no step of a call changes X, the node table or
\* the candidate lists, and the hard labels, the cluster list and the score a
\* call ends with are determined by those three arguments alone.
Thm_C18_Pure ==
    [][/\ X' = X
       /\ nodes_elements' = nodes_elements
       /\ X_idx_to_node_idxs' = X_idx_to_node_idxs
       /\ pc' = "done" =>
            LET cents == Centroids(X.data, X.shape[2], nodes_elements)
                res == ResolveAll(X.data, X.shape[2], cents, X_idx_to_node_idxs,
                                  X.shape[1], 0)
            IN /\ labels_unique' = res.labels
               /\ clusters' = BuildClusters(res.labels)
               /\ ComputeAic(np_log', X, nodes_elements, X_idx_to_node_idxs)
                    = [raised |-> "none", aic |-> aic']]_vars

Wit_C18 ==
    /\ pc = "done"
    /\ aic.kind = "fin"
    /\ \E p \in 1..N : /\ Len(X_idx_to_node_idxs[p]) = 2
                       /\ X_idx_to_node_idxs[p][1] > X_idx_to_node_idxs[p][2]
                       /\ labels_unique[p] = X_idx_to_node_idxs[p][1]

\* C19: under any interleaving of the workers no worker changes the shared
\* pipeline or the shared X, every returned score is the score a sequential
\* call gives for that configuration, and the shared pipeline's parameters
\* change only once the sweep has finished, when best_grid is applied.  A
\* score is compared with the sequential one in the step that returns it, and
\* no later step touches it or the fit it was computed from.
Thm_C19_WorkersIsolated ==
    [][/\ X' = X
       /\ fits' = fits
       /\ pipeline' # pipeline =>
            /\ sweep_pc = "set_params"
            /\ \A c \in Configs : task[c] = "returned"
            /\ grid_search_results # <<>>
            /\ pipeline' = best_grid
       /\ \A c \in Configs :
            task'[c] = "returned" =>
                IF task[c] = "returned" THEN results'[c] = results[c]
                ELSE results'[c] = <<c, ScoreOfFit(np_log', X, fits[c]).aic>>]_vars

Wit_C19 ==
    /\ sweep_pc = "parallel"
    /\ pipeline = 0
    /\ \E c1, c2, c3 \in Configs :
          /\ c1 < c2 /\ c2 < c3
          /\ task[c3] = "returned"
          /\ task[c2] = "fitted"
          /\ task[c1] = "pending"
          /\ results[c3][2].kind = "fin"
          /\ fits[c3] # fits[c2]

\* The formula of the score as a real number, for comparison with the float64
\* the model computes: it is evaluated in units of 1/Scale, its logarithms in
\* fixed point with 2 * QBits fractional bits, far below that unit; a value
\* in that format is a record [h, l] standing for (h * QHalf + l) / QOne
\* with 0 <= l < QHalf.
Scale == 10^5

QBits == 30 \div 2

QHalf == 2^QBits

QOne == QHalf * QHalf

\* ln 2 and ln(2 pi) in units of 1/QOne
Ln2 == 744261118
Ln2Pi == 1973405474

QNorm(h, l) == [h |-> h + l \div QHalf, l |-> l % QHalf]

\* a * b for fixed-point values 0 <= a, b < 1, truncated
QMul(a, b) ==
    (a \div QHalf) * (b \div QHalf)
    + ((a \div QHalf) * (b % QHalf) + (a % QHalf) * (b \div QHalf)
       + ((a % QHalf) * (b % QHalf)) \div QHalf) \div QHalf

\* the next bits binary digits of r / q, appended to those of acc
RECURSIVE QDivBits(_, _, _, _)
QDivBits(r, q, bits, acc) ==
    IF bits = 0 THEN acc
    ELSE IF r >= q - r THEN QDivBits(r - (q - r), q, bits - 1, 2 * acc + 1)
    ELSE QDivBits(2 * r, q, bits - 1, 2 * acc)

\* r / q in fixed point for integers 0 <= r < q, truncated
QDiv(r, q) ==
    IF q <= 2 * QHalf
    THEN ((r * QHalf) \div q) * QHalf + (((r * QHalf) % q) * QHalf) \div q
    ELSE QDivBits(r, q, 2 * QBits, 0)

\* 1/3 + w/5 + w^2/7 + w^3/9 + w^4/11
QAtanhPoly(w) ==
    QOne \div 3
    + QMul(w, QOne \div 5
              + QMul(w, QOne \div 7
                        + QMul(w, QOne \div 9 + QMul(w, QOne \div 11))))

QAtanhAt(z, w) == z + QMul(QMul(z, w), QAtanhPoly(w))

\* atanh(z) = z + z^3/3 + ... for 0 <= z <= 1/5; the terms from z^13/13 on
\* are below the last bit
QAtanh(z) == QAtanhAt(z, QMul(z, z))

RECURSIVE Log2Floor(_)
Log2Floor(n) == IF n < 2 THEN 0 ELSE 1 + Log2Floor(n \div 2)

\* e ln 2 + f
LnOut(e, f) == QNorm(e * (Ln2 \div QHalf), e * (Ln2 % QHalf) + f)

\* n = m * 2^e with 1 <= m < 2: ln m = 2 atanh((m - 1)/(m + 1)) for
\* m <= 4/3, and ln m = ln 2 - 2 atanh((2 - m)/(2 + m)) above
LnAt(n, p) ==
    IF 3 * n > 4 * p
    THEN LnOut(Log2Floor(p) + 1, -2 * QAtanh(QDiv(2 * p - n, n + 2 * p)))
    ELSE LnOut(Log2Floor(p), 2 * QAtanh(QDiv(n - p, n + p)))

\* np.log(n) for an integer n >= 1, in fixed point
Ln(n) == LnAt(n, 2^Log2Floor(n))

\* c * a and a + b on fixed-point values, for an integer c
QScale(c, a) == QNorm(c * a.h, c * a.l)

QAdd(a, b) == QNorm(a.h + b.h, a.l + b.l)

RECURSIVE QSum(_)
QSum(s) == IF s = <<>> THEN QNorm(0, 0) ELSE QAdd(s[1], QSum(Tail(s)))

\* the fixed-point value a in units of 1/Scale, rounded to the nearest
QToScale(a) ==
    (a.h \div QHalf) * Scale
    + ((a.h % QHalf) * (Scale \div 2^5) + (a.l * (Scale \div 2^5)) \div QHalf
       + QHalf \div 2^6) \div (QHalf \div 2^5)

\* 2 * sum_j(n_j ln n_j) - 2 N ln N - N d ln(2 pi sigma_sq) - d (N - k)
\* - 2 k (d + 1) in units of 1/Scale, rounded to the nearest: sum_j n_j ln n_j
\* is taken as the sum over the points of ln of the size of their own cluster
FormulaScore ==
    QToScale(QSum(<<QScale(2, QSum([p \in 1..N |->
                                      Ln(Count(labels_unique, labels_unique[p]))])),
                    QScale(-2 * N, Ln(N)),
                    QScale(-N * d, QNorm(0, Ln2Pi)),
                    QScale(-N * d, Ln(sigma_sq.num)),
                    QScale(N * d, Ln(sigma_sq.den))>>))
    - d * (N - k) * Scale
    - 2 * k * (d + 1) * Scale

RECURSIVE LToNat(_)
LToNat(a) == IF a = <<>> THEN 0 ELSE a[1] + Limb * LToNat(Tail(a))

\* |a| * Scale for a float64 a, rounded to the nearest integer
F64MagToScale(p, e) ==
    IF e >= 0 THEN LToNat(LShl(p, e))
    ELSE LToNat(LShr(LAddC(p, LShl(<<1>>, -e - 1), 0), -e).q)

\* the float64 a in units of 1/Scale, rounded to the nearest
F64ToScale(a) ==
    IF a.m = <<>> THEN 0
    ELSE (IF a.neg THEN -1 ELSE 1) * F64MagToScale(LMul(a.m, LFromNat(Scale)), a.e)

\* C20: for N > k and sigma_sq > 0 the returned score is a finite float64
\* that equals 2 * sum_j(n_j ln n_j) - 2 N ln N - N d ln(2 pi sigma_sq)
\* - d (N - k) - 2 k (d + 1) with natural logarithms, n_j being the number of
\* points that share the label of cluster j, up to the rounding of float64:
\* the two differ by less than 2 / Scale.
Thm_C20_AicFormula ==
    (pc = "done" /\ N > k /\ sigma_sq.kind = "fin" /\ sigma_sq.num > 0) =>
        /\ aic.kind = "fin"
        /\ Abs(F64ToScale(aic.f64) - FormulaScore) <= 1

Wit_C20 ==
    /\ pc = "done"
    /\ d = 2
    /\ N = 4
    /\ k = 2
    /\ sigma_sq.kind = "fin"
    /\ sigma_sq.num > 0
    /\ aic.kind = "fin"

(* ---------------- the selected configuration ---------------- *)
\* the hard labels compute_aic resolves for the fit of configuration c
FitLabels(c) ==
    ResolveAll(X.data, X.shape[2],
               Centroids(X.data, X.shape[2], fits[c].nodes_elements),
               fits[c].cands, X.shape[1], 0).labels

\* the clustering of configuration c has N = k or zero within-cluster variance
FitDegenerate(c) ==
    \/ Len(BuildClusters(FitLabels(c))) >= X.shape[1]
    \/ SumSq(X.data, X.shape[2],
             Centroids(X.data, X.shape[2], fits[c].nodes_elements),
             FitLabels(c)) = Fin(0, 1)

\* C21: the configuration selected as best has a finite score from a
\* non-degenerate clustering: one with N = k or zero within-cluster variance
\* is never returned as best_grid.
Cex_C21_BestIsNonDegenerate ==
    sweep_pc \in {"set_params", "done"} =>
        /\ best_score.kind = "fin"
        /\ ~FitDegenerate(best_grid)

(* ---------------- the cluster count ---------------- *)
\* the distinct values among the hard labels
DistinctLabels == {labels_unique[p] : p \in 1..Len(labels_unique)}

\* C22: k is the number of distinct values among the hard labels, also when
\* they are not contiguous or do not start at 0: the padding lists are
\* dropped, and each distinct label yields exactly one cluster, holding
\* exactly the points with that label.
Thm_C22_KCountsDistinctLabels ==
    ClustersBuilt =>
        /\ Len(clusters) = Cardinality(DistinctLabels)
        /\ k # Unset => k = Cardinality(DistinctLabels)
        /\ \A v \in DistinctLabels :
              Cardinality({j \in 1..Len(clusters) :
                              clusters[j] = SameLabel(labels_unique, v, 1)}) = 1
        /\ \A j \in 1..Len(clusters) :
              \E v \in DistinctLabels : clusters[j] = SameLabel(labels_unique, v, 1)

Wit_C22 ==
    /\ pc = "done"
    /\ k = 3
    /\ DistinctLabels = {0, 2, 3}

\* C23: the grid search returns one (configuration, score) pair per
\* configuration, in grid order, and the configuration of each pair is the
\* one whose fit produced the pair's score, in whatever order the workers
\* returned.
Thm_C23_OnePairPerConfigInGridOrder ==
    sweep_pc \in {"argmax", "set_params", "done"} =>
        /\ Len(grid_search_results) = MaxConfigs
        /\ \A c \in Configs :
              /\ grid_search_results[c][1] = c
              /\ ScoreOfFit(np_log, X, fits[c]) =
                   [raised |-> "none", aic |-> grid_search_results[c][2]]

Wit_C23 ==
    /\ sweep_pc = "argmax"
    /\ \A c1, c2 \in Configs :
          c1 # c2 => grid_search_results[c1][2] # grid_search_results[c2][2]
    /\ grid_search_results[1][2].kind = "fin"

\* C24: k <= N in every call, and N - k <= 0 holds exactly when k = N, that
\* is when every point is resolved to a cluster of its own.
Thm_C24_KAtMostN ==
    k # Unset =>
        /\ k <= N
        /\ (N - k <= 0) <=> (k = N)
        /\ (k = N) <=> (\A j \in 1..Len(clusters) : Len(clusters[j]) = 1)
        /\ (k = N) <=> (\A p, q \in 1..N : p # q => labels_unique[p] # labels_unique[q])

Wit_C24 ==
    /\ pc = "done"
    /\ N = 2
    /\ k = N
    /\ d = 1
    /\ \E p \in 1..N : Len(X_idx_to_node_idxs[p]) = 2

\* C25: when no point has more than one candidate and the node table is the
\* inverse of the candidate map, the soft centroid of every cell some point
\* is resolved to is the mean of the points resolved to it, and the sum of
\* squared distances from centroids[labels_unique] equals the sum from the
\* centroids of the hard partition.
Thm_C25_SoftEqualsHardWithoutOverlap ==
    ( /\ pc = "done"
      /\ \A p \in 1..Len(X_idx_to_node_idxs) : Len(X_idx_to_node_idxs[p]) <= 1
      /\ TableIsInverse ) =>
        /\ \A v \in DistinctLabels :
              LET hard == Centroid(X.data, d, SameLabel(labels_unique, v, 1))
              IN /\ centroids[v + 1].cnt = hard.cnt
                 /\ centroids[v + 1].sum = hard.sum
        /\ SumSq(X.data, d, centroids, labels_unique) = HardSumSq

Wit_C25 ==
    /\ pc = "done"
    /\ TableIsInverse
    /\ \A p \in 1..Len(X_idx_to_node_idxs) : Len(X_idx_to_node_idxs[p]) = 1
    /\ N = 3
    /\ k = 2
    /\ HardSumSq.kind = "fin"
    /\ HardSumSq.num > 0

(* ---------------- the identifiers AIC_score hands to compute_aic ---------------- *)
\* lines 134-135 have run
Translated == pc \notin {"graph", "global_ids", "translate", "idle"}

\* some pair of labels_ has no node in the graph
MissingPair ==
    \E p \in 1..Len(labels_) : \E q \in 1..Len(labels_[p]) :
        \A a \in 1..Len(graph_vs) :
            <<graph_vs[a].pullback_set_label, graph_vs[a].partial_cluster_label>>
                # labels_[p][q]

\* C26: every identifier AIC_score places in a candidate list indexes the
\* node table (0 <= id < number of nodes) and is the node of the pair it
\* stands for, so compute_aic never looks up a centroid outside the centroid
\* table; a pair with no node ends AIC_score with KeyError and no candidate
\* list is built.
Thm_C26_CandidateIdsIndexNodes ==
    Translated =>
        /\ MissingPair <=> (raised = "KeyError")
        /\ MissingPair => (pc = "raised" /\ X_idx_to_node_idxs = <<>>)
        /\ raised # "IndexError"
        /\ \A p \in 1..Len(X_idx_to_node_idxs) : \A q \in 1..Len(X_idx_to_node_idxs[p]) :
              LET id == X_idx_to_node_idxs[p][q]
              IN /\ 0 <= id
                 /\ id < Len(nodes_elements)
                 /\ id < Len(graph_vs)
                 /\ <<graph_vs[id + 1].pullback_set_label,
                      graph_vs[id + 1].partial_cluster_label>> = labels_[p][q]

Wit_C26 ==
    /\ pc = "done"
    /\ Len(graph_vs) = 3
    /\ graph_vs[1].pullback_set_label = 1
    /\ \E p \in 1..2 : /\ Len(X_idx_to_node_idxs[p]) = 2
                       /\ X_idx_to_node_idxs[p][1] = 2
    /\ aic.kind = "fin"

====
